---- MODULE Spec2Model ----
(***************************************************************************)
(* Retrieval, ranking and answer synthesis of the adaptive RAG workbench:  *)
(* RetrieverAgent (app/agents/retriever.py), the strategy processors and   *)
(* the RAG stream of app/api/chat.py, MCPRAGService and                    *)
(* AgenticVectorRAGService.                                                *)
(*                                                                         *)
(* Scores are integers in hundredths: 0.01 is 1, 1.0 is 100.               *)
(***************************************************************************)
EXTENDS Integers, Sequences, FiniteSets, TLC

\* ------------------------------------------------------------------ bounds
\* longest hit list the search gateway returns in the retriever specification
MaxHits == 3
\* longest hit list in the processor specification
MaxPipeHits == 2
\* longest hit list in the stream specification
MaxStreamHits == 1
\* longest hit list in the citation specification
MaxCiteHits == 2
\* longest string value of an explicit filter, in characters
\* the longest list of references of a planner response
MaxRefs == 2

\* the longest activity trace of a planner response
MaxSteps == 2

\* the longest conversation history
MaxHistory == 9

\* the most tokens the orchestrator yields in a stream
MaxTokens == 2

\* the most calls of process_question the ledger is followed for
MaxCalls == 2

MaxValueLen == 2

\* ------------------------------------------------------- program constants
\* Python None for an absent "@search.reranker_score"
NoScore == -1
\* self.score_threshold = 0.01
score_threshold == 1
\* self.reranker_threshold = 1.0
reranker_threshold == 100

\* length of a mock document's content (several hundred characters) and of
\* its one highlight
MockContentLen == 400
MockHighlightLen == 60

\* ---------------------------------------------------------- input domains
\* "@search.score" values: below the threshold, low, high
ScoreVals == {0, 30, 80}
\* "@search.reranker_score" values: absent, below 1.0, at 1.0, above
RerankVals == {NoScore, 25, 75, 100, 250}
\* query texts; the first contains "risk", the second neither "risk",
\* "revenue" nor "r&d"
Queries == {"risk factors", "ai strategy"}
\* lengths of a hit's content: empty, shorter and longer than an excerpt
ContentVals == {0, 200, 400}
\* "@search.captions" of a hit, as the lengths of the caption texts: none,
\* one short caption, a long and a short one
CaptionVals == {<<>>, <<60>>, <<350, 20>>}
\* company names of the indexed filings
CompanyVals == {"Apple", "Microsoft"}

VARIABLES
    query,                  \* the query text of the request
    index_hits,             \* what the search index returns for the query
    imports_available,      \* AGENTIC_IMPORTS_AVAILABLE
    agentic_enabled,        \* AgenticVectorRAGService.agentic_enabled
    knowledge_agent_client, \* ... .knowledge_agent_client is not None
    index_client,           \* ... .index_client is not None
    mcp_initialized,        \* MCPRAGService._initialized
    mcp_client,             \* MCPRAGService._client is not None
    ledger,                 \* the log of token_tracker
    ret                     \* what the last call returned (or raised)

vars == <<query, index_hits, imports_available, agentic_enabled,
          knowledge_agent_client, index_client, mcp_initialized, mcp_client,
          ledger, ret>>

\* the request, the index and the SDK; and the log of token_tracker, which
\* only the calls of the ledger specification follow
env_vars == <<query, index_hits, imports_available, ledger>>
agentic_vars == <<agentic_enabled, knowledge_agent_client, index_client>>
mcp_vars == <<mcp_initialized, mcp_client>>

\* ================================================================ retriever

\* one search result: id is its position in the gateway's answer, content the
\* length of its text, captions the lengths of its "@search.captions" texts
Hit(i, s, r, c, h, co) ==
    [id |-> i, score |-> s, reranker |-> r, content |-> c, captions |-> h,
     company |-> co]

\* all hit lists of length n over the given domains
HitLists(n, S, R, C, H, Co) ==
    { [i \in 1..n |-> Hit(i, f[i][1], f[i][2], f[i][3], f[i][4], f[i][5])] :
        f \in [1..n -> S \X R \X C \X H \X Co] }

\* the document invoke builds from a result that passed the thresholds
BuildDoc(h, q) ==
    [id |-> h.id,
     content |-> h.content,
     company |-> h.company,
     search_score |-> h.score,
     reranker_score |-> h.reranker,
     highlights |-> h.captions,
     search_query |-> q,
     citation |-> TRUE]

\* the two threshold tests of the result loop
PassesThresholds(h) ==
    /\ ~(h.score < score_threshold)
    /\ ~(h.reranker # NoScore /\ h.reranker < reranker_threshold)

\* x.get("reranker_score") or 0
RerankKey(d) == IF d.reranker_score = NoScore THEN 0 ELSE d.reranker_score

\* lexicographic comparison of the sort key tuples: key(a) > key(b)
KeyGreater(a, b) ==
    \/ RerankKey(a) > RerankKey(b)
    \/ RerankKey(a) = RerankKey(b) /\ a.search_score > b.search_score

\* the key of the mock sort: search_score alone
ScoreGreater(a, b) == a.search_score > b.search_score

\* the comparison a sort uses: invoke sorts by the pair, the mock by the score
Greater(a, b, key) ==
    IF key = "pair" THEN KeyGreater(a, b) ELSE ScoreGreater(a, b)

\* InsertDesc as a sort that is not stable would do it: d goes in front of the
\* elements whose key is equal
RECURSIVE InsertDescUnstable(_, _, _)
InsertDescUnstable(s, d, key) ==
    IF s = <<>> THEN <<d>>
    ELSE IF ~Greater(Head(s), d, key) THEN <<d>> \o s
    ELSE <<Head(s)>> \o InsertDescUnstable(Tail(s), d, key)

\* insert d behind every element whose key is not smaller (stable, descending)
RECURSIVE InsertDesc(_, _, _)
InsertDesc(s, d, key) ==
    IF s = <<>> THEN <<d>>
    ELSE IF Greater(d, Head(s), key) THEN <<d>> \o s
    ELSE <<Head(s)>> \o InsertDesc(Tail(s), d, key)

\* list.sort(key=..., reverse=True) and sorted(..., reverse=True): stable,
\* descending
RECURSIVE SortDesc(_, _)
SortDesc(s, key) ==
    IF s = <<>> THEN <<>>
    ELSE InsertDesc(SortDesc(SubSeq(s, 1, Len(s) - 1), key), s[Len(s)], key)

\* the result loop: filter, build
RECURSIVE FilterAndBuild(_, _)
FilterAndBuild(hits, q) ==
    IF hits = <<>> THEN <<>>
    ELSE IF PassesThresholds(Head(hits))
         THEN <<BuildDoc(Head(hits), q)>> \o FilterAndBuild(Tail(hits), q)
         ELSE FilterAndBuild(Tail(hits), q)

\* companies[:3]
MockCompanies == <<"Apple", "Microsoft", "Google">>

\* MockDoc with the search_query left empty
MockDocNoQuery(n, q) ==
    LET i == (n - 1) \div 2
        j == (n - 1) % 2
    IN [id |-> n,
        content |-> MockContentLen,
        company |-> MockCompanies[i + 1],
        search_score |-> 90 - (i * 10) - (j * 5),
        reranker_score |-> 85 - (i * 8) - (j * 4),
        highlights |-> <<MockHighlightLen>>,
        search_query |-> "",
        citation |-> TRUE]

\* mock document number n (1..6) of companies[:3] x years[:2]
MockDoc(n, q) ==
    LET i == (n - 1) \div 2
        j == (n - 1) % 2
    IN [id |-> n,
        content |-> MockContentLen,
        company |-> MockCompanies[i + 1],
        search_score |-> 90 - (i * 10) - (j * 5),
        reranker_score |-> 85 - (i * 8) - (j * 4),
        highlights |-> <<MockHighlightLen>>,
        search_query |-> q,
        citation |-> TRUE]

\* _generate_mock_documents
GenerateMockDocuments(q) ==
    SortDesc([n \in 1..6 |-> MockDoc(n, q)], "score")

\* the characters of a string filter value: a letter and the single quote
FilterChars == {"M", "'"}

\* the values of an explicit filter: strings of up to MaxValueLen characters,
\* and non-string values given by the characters str() formats them to
FilterValues ==
    { [is_str |-> TRUE, text |-> t] :
        t \in UNION { [1..n -> FilterChars] : n \in 0..MaxValueLen } }
    \cup { [is_str |-> FALSE, text |-> <<"2", "0", "2", "3">>],
           [is_str |-> FALSE, text |-> <<"T", "r", "u", "e">>] }

\* the fields an explicit filter names
FilterKeys == {"company", "year"}

\* the filters argument of invoke: None or {} (no entries), or a dict, given
\* as its items in insertion order
FilterMaps ==
    { <<>> }
    \cup { <<[key |-> k, value |-> v]>> : k \in FilterKeys, v \in FilterValues }
    \cup { m \in { <<[key |-> k1, value |-> v1], [key |-> k2, value |-> v2]>> :
                      k1 \in FilterKeys, k2 \in FilterKeys,
                      v1 \in FilterValues, v2 \in FilterValues } :
             m[1].key # m[2].key }

\* f"{key} eq '{value}'" for a string value, f"{key} eq {value}" otherwise
FilterExpression(key, value) ==
    IF value.is_str
    THEN <<key, " eq ", "'">> \o value.text \o <<"'">>
    ELSE <<key, " eq ">> \o value.text

\* " and ".join(filter_expressions)
RECURSIVE JoinAnd(_)
JoinAnd(items) ==
    IF items = <<>> THEN <<>>
    ELSE IF Len(items) = 1
    THEN FilterExpression(items[1].key, items[1].value)
    ELSE FilterExpression(items[1].key, items[1].value)
         \o <<" and ">> \o JoinAnd(Tail(items))

\* search_params["filter"] as invoke sets it: absent without filters
SearchFilter(filters) ==
    IF filters = <<>>
    THEN [present |-> FALSE, clause |-> <<>>]
    ELSE [present |-> TRUE, clause |-> JoinAnd(filters)]

\* _generate_query_embedding: the vector, or None when the call raises
GenerateQueryEmbedding(embed_ok) == embed_ok

\* RetrieverAgent.invoke
InvokeResult(q, hits, embed_ok, search_ok) ==
    LET query_vector == GenerateQueryEmbedding(embed_ok)
    IN IF search_ok
       THEN [op |-> "invoke", raised |-> FALSE, path |-> "search",
             vector_attached |-> query_vector,
             docs |-> SortDesc(FilterAndBuild(hits, q), "pair")]
       ELSE [op |-> "invoke", raised |-> FALSE, path |-> "mock",
             vector_attached |-> query_vector,
             docs |-> GenerateMockDocuments(q)]

\* ============================================================== completion

Min(a, b) == IF a < b THEN a ELSE b

\* outcomes of one chat completion call: it raises, or it returns an answer
\* and the usage the service reports
Completions ==
    { [ok |-> FALSE, prompt_tokens |-> 0, completion_tokens |-> 0,
       total_tokens |-> 0],
      [ok |-> TRUE, prompt_tokens |-> 12, completion_tokens |-> 7,
       total_tokens |-> 19] }

\* calls made to the gateways while one request is served
Calls(e, s, c) == [embedding |-> e, search |-> s, completion |-> c]

\* {"prompt_tokens": p, "completion_tokens": c, "total_tokens": t}
TokenUsage(p, c, t) ==
    [prompt_tokens |-> p, completion_tokens |-> c, total_tokens |-> t]

\* the arguments of a call of token_tracker.record_token_usage
UsageRecord(prompt_tokens, completion_tokens, success) ==
    [prompt_tokens |-> prompt_tokens, completion_tokens |-> completion_tokens,
     success |-> success]

\* {"total_tokens": 0, "error": str(e)}
ErrorTokenUsage(exc) == [total_tokens |-> 0, error |-> exc]

\* the canned answer of an empty retrieval
NoDocumentsAnswer == [kind |-> "no_relevant_documents"]

\* ================================================================ fast mode

\* whether the name conversation_context, which process_fast_rag reads, is
\* bound: it is neither a parameter nor a local nor a module-level name
ConversationContextBound == FALSE

\* str(e) of the NameError the unbound name raises
NameErrorText == <<"name 'conversation_context' is not defined">>

\* _generate_llm_synthesized_answer of chat.py: the model's answer with the
\* reported usage, or the first 200 characters of the first three documents
GenerateLlmSynthesizedAnswer(docs, completion) ==
    IF completion.ok
    THEN [answer |-> [kind |-> "llm"],
          prompt_tokens |-> completion.prompt_tokens,
          completion_tokens |-> completion.completion_tokens,
          total_tokens |-> completion.total_tokens]
    ELSE [answer |->
            [kind |-> "excerpts",
             parts |-> [i \in 1..Min(Len(docs), 3) |->
                          [doc |-> docs[i].id,
                           len |-> Min(docs[i].content, 200)]]],
          prompt_tokens |-> 0,
          completion_tokens |-> 0,
          total_tokens |-> 0]

\* the citation loop of process_fast_rag
RECURSIVE FastCitations(_, _)
FastCitations(docs, citation_id) ==
    IF docs = <<>> THEN <<>>
    ELSE LET doc == Head(docs)
             relevant_text == IF doc.highlights # <<>>
                              THEN Min(doc.highlights[1], 300)
                              ELSE Min(doc.content, 300)
         IN IF relevant_text > 0
            THEN <<[id |-> citation_id,
                    doc |-> doc.id,
                    content |-> relevant_text,
                    excerpt_of |-> IF doc.highlights # <<>>
                                   THEN "highlights[0]" ELSE "content",
                    ellipsis |-> FALSE,
                    company |-> doc.company,
                    search_score |-> doc.search_score,
                    reranker_score |-> doc.reranker_score]>>
                 \o FastCitations(Tail(docs), citation_id + 1)
            ELSE FastCitations(Tail(docs), citation_id)

\* traceback.format_exc(): the stack trace of the exception being handled
FormatExc == "Traceback (most recent call last): ..."

\* the except branch of process_fast_rag
FastErrorResult(exc) ==
    [answer |-> [kind |-> "error",
                 text |-> <<"Error in Fast RAG processing: ">> \o exc],
     citations |-> <<>>,
     query_rewrites |-> <<>>,
     token_usage |-> ErrorTokenUsage(exc),
     retrieval_method |-> "hybrid_vector_search",
     documents_retrieved |-> 0,
     error_details |-> FormatExc,
     success |-> FALSE]

\* process_fast_rag
ProcessFastRag(prompt, hits, embed_ok, search_ok, completion) ==
    IF ~ConversationContextBound
    THEN [result |-> FastErrorResult(NameErrorText), calls |-> Calls(0, 0, 0)]
    ELSE
    LET docs == InvokeResult(prompt, hits, embed_ok, search_ok).docs
        llm_result == GenerateLlmSynthesizedAnswer(docs, completion)
    IN IF docs = <<>>
       THEN [result |->
               [answer |-> NoDocumentsAnswer,
                citations |-> <<>>,
                query_rewrites |-> <<prompt>>,
                token_usage |-> TokenUsage(0, 0, 0),
                retrieval_method |-> "hybrid_vector_search",
                documents_retrieved |-> 0,
                success |-> TRUE],
             calls |-> Calls(1, 1, 0)]
       ELSE [result |->
               [answer |-> llm_result.answer
                             @@ [note |-> "hybrid vector search"],
                citations |-> FastCitations(docs, 1),
                query_rewrites |-> <<prompt>>,
                token_usage |-> TokenUsage(llm_result.prompt_tokens,
                                           llm_result.completion_tokens,
                                           llm_result.total_tokens),
                retrieval_method |-> "hybrid_vector_search",
                documents_retrieved |-> Len(docs),
                success |-> TRUE],
             calls |-> Calls(1, 1, 1)]

\* ============================================================ protocol mode

\* answers of the HTTP API server to the health probe and to a search POST
HttpOutcomes == {"200", "503", "raise"}

\* str(e) of what _test_mcp_connection raises
HealthErrorText(health) ==
    IF health = "503" THEN <<"HTTP API server returned status 503">>
    ELSE <<"All connection attempts failed">>

\* MCPRAGService.ensure_initialized
McpEnsureInitialized(initialized, client, health) ==
    IF initialized
    THEN [raised |-> FALSE, exc |-> <<>>,
          initialized |-> initialized, client |-> client]
    ELSE IF health = "200"
    THEN [raised |-> FALSE, exc |-> <<>>,
          initialized |-> TRUE, client |-> TRUE]
    ELSE [raised |-> TRUE, exc |-> HealthErrorText(health),
          initialized |-> FALSE, client |-> TRUE]

\* _format_results of the HTTP API server: every hit, unfiltered, content
\* cut to 2000 characters
FormatResults(hits) ==
    [i \in 1..Len(hits) |->
        [id |-> hits[i].id,
         content |-> Min(hits[i].content, 2000),
         company |-> hits[i].company,
         search_score |-> hits[i].score,
         reranker_score |-> hits[i].reranker]]

\* MCPRAGService.search_documents after ensure_initialized
McpSearchDocuments(hits, post) ==
    IF post = "200" THEN FormatResults(hits) ELSE <<>>

\* content[:300] + "..." if len(content) > 300 else content
Preview(content) == IF content > 300 THEN 300 + 3 ELSE content

\* the citation loop of MCPRAGService.process_question
RECURSIVE McpCitations(_, _)
McpCitations(docs, citation_id) ==
    IF docs = <<>> THEN <<>>
    ELSE LET doc == Head(docs)
         IN IF doc.content > 0
            THEN <<[id |-> citation_id,
                    doc |-> doc.id,
                    content |-> Preview(doc.content),
                    excerpt_of |-> "content",
                    ellipsis |-> doc.content > 300,
                    company |-> doc.company,
                    search_score |-> doc.search_score]>>
                 \o McpCitations(Tail(docs), citation_id + 1)
            ELSE McpCitations(Tail(docs), citation_id)

\* the keys of doc_groups in insertion order
RECURSIVE GroupKeys(_, _)
GroupKeys(docs, seen) ==
    IF docs = <<>> THEN <<>>
    ELSE IF Head(docs).company \in seen THEN GroupKeys(Tail(docs), seen)
    ELSE <<Head(docs).company>>
         \o GroupKeys(Tail(docs), seen \cup {Head(docs).company})

\* the bullet lines of one company group
RECURSIVE GroupBullets(_, _)
GroupBullets(docs, company) ==
    IF docs = <<>> THEN <<>>
    ELSE IF Head(docs).company = company /\ Head(docs).content > 0
    THEN <<[doc |-> Head(docs).id, len |-> Preview(Head(docs).content)]>>
         \o GroupBullets(Tail(docs), company)
    ELSE GroupBullets(Tail(docs), company)

\* MCPRAGService._generate_fallback_answer
McpGenerateFallbackAnswer(docs) ==
    LET keys == GroupKeys(docs, {})
    IN [answer |->
          [kind |-> "structured_excerpts",
           count |-> Len(docs),
           groups |-> [k \in 1..Len(keys) |->
                         [company |-> keys[k],
                          bullets |-> GroupBullets(docs, keys[k])]]],
        prompt_tokens |-> 0,
        completion_tokens |-> 0,
        total_tokens |-> 0]

\* MCPRAGService._generate_llm_answer
McpGenerateLlmAnswer(docs, completion) ==
    IF completion.ok
    THEN [answer |-> [kind |-> "llm", note |-> "MCP search"],
          prompt_tokens |-> completion.prompt_tokens,
          completion_tokens |-> completion.completion_tokens,
          total_tokens |-> completion.total_tokens]
    ELSE McpGenerateFallbackAnswer(docs)

\* McpErrorResult as it would be if the except branch kept the citations
\* built before the failure
McpErrorResultWithCitations(exc) ==
    [answer |-> [kind |-> "error",
                 text |-> <<"Error in MCP RAG processing: ">> \o exc],
     citations |-> <<[id |-> 1]>>,
     query_rewrites |-> <<>>,
     token_usage |-> ErrorTokenUsage(exc),
     retrieval_method |-> "mcp_hybrid_search",
     documents_retrieved |-> 0,
     error_details |-> FormatExc,
     success |-> FALSE]

\* the error result of process_mcp_rag and of MCPRAGService.process_question
McpErrorResult(exc) ==
    [answer |-> [kind |-> "error",
                 text |-> <<"Error in MCP RAG processing: ">> \o exc],
     citations |-> <<>>,
     query_rewrites |-> <<>>,
     token_usage |-> ErrorTokenUsage(exc),
     retrieval_method |-> "mcp_hybrid_search",
     documents_retrieved |-> 0,
     error_details |-> FormatExc,
     success |-> FALSE]

\* MCPRAGService.process_question
McpProcessQuestion(question, hits, initialized, client, health, post, completion) ==
    LET init == McpEnsureInitialized(initialized, client, health)
        docs == McpSearchDocuments(hits, post)
        llm_result == McpGenerateLlmAnswer(docs, completion)
    IN IF init.raised
       THEN [result |-> McpErrorResult(init.exc),
             initialized |-> init.initialized, client |-> init.client,
             recorded |-> <<UsageRecord(0, 0, FALSE)>>,
             calls |-> Calls(0, 0, 0)]
       ELSE IF docs = <<>>
       THEN [result |->
               [answer |-> NoDocumentsAnswer,
                citations |-> <<>>,
                query_rewrites |-> <<question>>,
                token_usage |-> TokenUsage(0, 0, 0),
                retrieval_method |-> "mcp_hybrid_search",
                documents_retrieved |-> 0,
                success |-> TRUE],
             initialized |-> init.initialized, client |-> init.client,
             recorded |-> <<UsageRecord(0, 0, TRUE)>>,
             calls |-> Calls(0, 1, 0)]
       ELSE [result |->
               [answer |-> llm_result.answer,
                citations |-> McpCitations(docs, 1),
                query_rewrites |-> <<question>>,
                token_usage |->
                    TokenUsage(llm_result.prompt_tokens,
                               llm_result.completion_tokens,
                               llm_result.prompt_tokens
                                 + llm_result.completion_tokens),
                retrieval_method |-> "mcp_hybrid_search",
                documents_retrieved |-> Len(docs),
                success |-> TRUE],
             initialized |-> init.initialized, client |-> init.client,
             recorded |-> <<UsageRecord(llm_result.prompt_tokens,
                                        llm_result.completion_tokens,
                                        TRUE)>>,
             calls |-> Calls(0, 1, 1)]

\* process_mcp_rag: ensure_initialized, then the service's process_question
ProcessMcpRag(prompt, hits, initialized, client, health, post, completion) ==
    LET init == McpEnsureInitialized(initialized, client, health)
    IN IF init.raised
       THEN [result |-> McpErrorResult(init.exc),
             initialized |-> init.initialized, client |-> init.client,
             recorded |-> <<>>,
             calls |-> Calls(0, 0, 0)]
       ELSE McpProcessQuestion(prompt, hits, init.initialized, init.client,
                               health, post, completion)

\* ======================================================= deep research mode

\* what azure_ai_agents_service.process_deep_research returns (it catches its
\* own exceptions): a researched answer with citations, or a failure result
DeepResearchOutcomes ==
    { [answer |-> [kind |-> "research"], citations |-> <<[id |-> 1]>>,
       token_usage |-> TokenUsage(12, 7, 19), success |-> TRUE],
      [answer |-> [kind |-> "error",
                   text |-> <<"Deep research run failed: ", "Unknown error">>],
       citations |-> <<>>,
       token_usage |-> ErrorTokenUsage(<<"Deep research run failed: ",
                                         "Unknown error">>),
       success |-> FALSE] }

\* str(e) of a failing token_tracker.start_tracking
TrackerErrorText == <<"token tracker unavailable">>

\* process_deep_research_rag: the agents service's result under success=True,
\* or the result of the except branch
ProcessDeepResearchRag(prompt, tracker_ok, agents_result) ==
    IF ~tracker_ok
    THEN [answer |-> [kind |-> "error",
                      text |-> <<"Error in Deep Research RAG processing: ">>
                                 \o TrackerErrorText],
          citations |-> <<>>,
          query_rewrites |-> <<>>,
          token_usage |-> ErrorTokenUsage(TrackerErrorText),
          success |-> FALSE]
    ELSE [answer |-> agents_result.answer,
          citations |-> agents_result.citations,
          query_rewrites |-> <<prompt>>,
          token_usage |-> agents_result.token_usage,
          retrieval_method |-> "azure_ai_agents_deep_research",
          success |-> TRUE]

\* ============================================================= agentic mode

\* the state of the AgenticVectorRAGService singleton
AgenticState(enabled, kac, ic) ==
    [agentic_enabled |-> enabled,
     knowledge_agent_client |-> kac,
     index_client |-> ic]

\* what the search service does during initialize: every step works, no
\* SearchIndexClient can be built, the agent cannot be created, or no
\* KnowledgeAgentRetrievalClient can be built
InitOutcomes == {"ok", "no_index_client", "create_agent_fails",
                 "no_retrieval_client"}

\* str(e) of exceptions raised by the search service; the second is an error
\* payload of the service, passed on as the exception text
UpstreamErrors == {"Request timed out", "{\"error\":{\"code\":\"429\"}}"}

\* texts that hold raw JSON
JsonTexts == {"{\"error\":{\"code\":\"429\"}}"}

\* AgenticVectorRAGService.is_initialized
IsInitialized(st) ==
    st.agentic_enabled /\ st.knowledge_agent_client /\ st.index_client

\* the except branch of initialize
InitializeFailed(ic, cause) ==
    [raised |-> TRUE,
     exc |-> <<"Agentic service initialization failed: ">> \o cause,
     st |-> AgenticState(FALSE, FALSE, ic)]

\* initialize as it would be without the early return of a disabled service
AgenticInitializeRetrying(st, outcome, err) ==
    LET ic == IF outcome = "no_index_client" THEN st.index_client ELSE TRUE
        kac == IF outcome = "no_retrieval_client"
               THEN st.knowledge_agent_client ELSE TRUE
    IN IF ~ic
       THEN InitializeFailed(ic,
              <<"Failed to initialize index client with any API version. Last error: ",
                err>>)
       ELSE IF outcome = "create_agent_fails"
       THEN InitializeFailed(ic, <<err>>)
       ELSE IF ~kac
       THEN InitializeFailed(ic,
              <<"Failed to initialize knowledge agent retrieval client. Last error: ",
                err>>)
       ELSE [raised |-> FALSE, exc |-> <<>>,
             st |-> AgenticState(TRUE, kac, ic)]

\* AgenticVectorRAGService.initialize
AgenticInitialize(st, outcome, err) ==
    LET ic == IF outcome = "no_index_client" THEN st.index_client ELSE TRUE
        kac == IF outcome = "no_retrieval_client"
               THEN st.knowledge_agent_client ELSE TRUE
    IN IF ~st.agentic_enabled
       THEN [raised |-> FALSE, exc |-> <<>>, st |-> st]
       ELSE IF ~ic
       THEN InitializeFailed(ic,
              <<"Failed to initialize index client with any API version. Last error: ",
                err>>)
       ELSE IF outcome = "create_agent_fails"
       THEN InitializeFailed(ic, <<err>>)
       ELSE IF ~kac
       THEN InitializeFailed(ic,
              <<"Failed to initialize knowledge agent retrieval client. Last error: ",
                err>>)
       ELSE [raised |-> FALSE, exc |-> <<>>,
             st |-> AgenticState(TRUE, kac, ic)]

\* AgenticVectorRAGService.ensure_initialized
AgenticEnsureInitialized(st, outcome, err) ==
    LET init == IF IsInitialized(st)
                THEN [raised |-> FALSE, exc |-> <<>>, st |-> st]
                ELSE AgenticInitialize(st, outcome, err)
    IN IF init.raised THEN init
       ELSE IF ~IsInitialized(init.st)
       THEN [raised |-> TRUE,
             exc |-> <<"Agentic service failed to initialize properly. ">>,
             st |-> init.st]
       ELSE init

\* the source data a reference carries inline: none, a dict, a string that
\* holds a JSON object, or a string of plain text
SourceData(kind, title, content, company) ==
    [kind |-> kind, title |-> title, content |-> content, company |-> company]

NoSourceData == SourceData("none", <<>>, 0, "")

\* what the search index holds under a reference's doc_key: the lookup finds
\* a document with or without a title, finds nothing, or raises
LookupOutcomes == {"hit", "hit_untitled", "miss", "raises"}

\* a reference of the planner's response: reading it may raise; doc_key is
\* the key split at "_"
Reference(raises, source_data, doc_key, lookup) ==
    [raises |-> raises, source_data |-> source_data, doc_key |-> doc_key,
     lookup |-> lookup]

FilingKey == <<"0001564590-19-027952", "chunk", "25">>

InlineReference ==
    Reference(FALSE, SourceData("dict", <<"Apple 10-K 2023">>, 700, "Apple"),
              FilingKey, "miss")

References ==
    { InlineReference,
      Reference(FALSE, SourceData("dict", <<>>, 0, "Microsoft"), FilingKey,
                "hit"),
      Reference(FALSE, SourceData("json_str", <<"Google 10-Q">>, 150, "Google"),
                <<"doc7">>, "hit"),
      Reference(FALSE, SourceData("text_str", <<>>, 700, ""), <<"doc7">>,
                "hit"),
      Reference(FALSE, NoSourceData, FilingKey, "hit"),
      Reference(FALSE, NoSourceData, FilingKey, "hit_untitled"),
      Reference(FALSE, NoSourceData, <<"doc7">>, "miss"),
      Reference(FALSE, NoSourceData, FilingKey, "raises"),
      Reference(FALSE, NoSourceData, <<>>, "miss"),
      Reference(TRUE, NoSourceData, <<>>, "miss") }

RECURSIVE SeqsUpTo(_, _)
SeqsUpTo(S, n) ==
    IF n = 0 THEN {<<>>}
    ELSE LET shorter == SeqsUpTo(S, n - 1)
         IN shorter \cup { Append(s, x) : s \in shorter, x \in S }

\* an item of grounding data
GroundingItem(title, company, content) ==
    [title |-> title, company |-> company, content |-> content]

\* the text of the planner's response: its first two characters, its length,
\* whether json.loads accepts it, and the items it then yields
Payload(head, length, json, items) ==
    [head |-> head, length |-> length, json |-> json, items |-> items]

ProsePayload == Payload(<<"T", "h">>, 120, FALSE, <<>>)

GroundingItems ==
    <<GroundingItem(<<"Apple 10-K 2023">>, "Apple", 700),
      GroundingItem(<<>>, "Microsoft", 150),
      GroundingItem(<<"Note">>, "", 80),
      GroundingItem(<<"Google 10-Q">>, "Google", 300)>>

JsonPayload == Payload(<<"[", "{">>, 900, TRUE, GroundingItems)

\* payloads of the planner's response: no text, a short or a long prose
\* answer, grounding data serialized as a JSON array or object, compact or
\* with white space after the opening token, and a truncated JSON text
Payloads ==
    { Payload(<<>>, 0, FALSE, <<>>),
      Payload(<<"N", "o">>, 20, FALSE, <<>>),
      ProsePayload,
      JsonPayload,
      Payload(<<"{", "\"">>, 120, TRUE, SubSeq(GroundingItems, 1, 1)),
      Payload(<<"[", "{">>, 120, FALSE, <<>>),
      Payload(<<"[", "\n">>, 900, TRUE, GroundingItems),
      Payload(<<"{", " ">>, 120, TRUE, SubSeq(GroundingItems, 1, 1)),
      Payload(<<"[", "]">>, 2, TRUE, <<>>) }

\* the payloads the chat stream is explored with
StreamPayloads == {ProsePayload, JsonPayload}

\* an entry of the activity trace of the planner's response: its class name,
\* its input and output tokens, whether it is a semantic ranker record, and
\* whether reading it raises
ActivityEntry(type, input_tokens, output_tokens, raises) ==
    [type |-> type, input_tokens |-> input_tokens,
     output_tokens |-> output_tokens,
     ranker |-> type = "KnowledgeAgentSemanticRankerActivityRecord",
     raises |-> raises]

PlanningEntry ==
    ActivityEntry("KnowledgeAgentModelQueryPlanningActivityRecord", 5, 3, FALSE)

RankerEntry ==
    ActivityEntry("KnowledgeAgentSemanticRankerActivityRecord", 4, 0, FALSE)

MalformedEntry == ActivityEntry("Unknown", 0, 0, TRUE)

\* activity traces of the planner's response: absent or empty, or a planning
\* step followed by a ranker step
ActivityTraces == { <<>>, <<PlanningEntry, RankerEntry>> }

\* the usage property of the planner's response: absent, or the prompt,
\* completion and total tokens the service reports
NoUsage == [present |-> FALSE, prompt_tokens |-> 0, completion_tokens |-> 0,
            total_tokens |-> 0]

ResponseUsages ==
    { NoUsage,
      [present |-> TRUE, prompt_tokens |-> 10, completion_tokens |-> 5,
       total_tokens |-> 15] }

\* outcomes of knowledge_agent_client.retrieve: it raises, or it returns a
\* response
PlanOutcomes ==
    { [ok |-> FALSE, err |-> e, payload |-> Payload(<<>>, 0, FALSE, <<>>),
       references |-> <<>>, activity |-> <<>>, usage |-> NoUsage] :
        e \in UpstreamErrors }
    \cup
    { [ok |-> TRUE, err |-> "", payload |-> p, references |-> r,
       activity |-> a, usage |-> u] :
        p \in StreamPayloads, r \in {<<>>, <<InlineReference>>},
        a \in ActivityTraces, u \in ResponseUsages }

\* the test of _extract_answer_from_response for raw JSON grounding data
StartsWithJson(payload) ==
    payload.head = <<"[", "{">> \/ payload.head = <<"{", "\"">>

\* the grounding data _synthesize_answer_from_grounding_data takes from the
\* first 5 references: the source data of those that carry any
RECURSIVE ReferenceGrounding(_)
ReferenceGrounding(refs) ==
    IF refs = <<>> THEN <<>>
    ELSE LET sd == Head(refs).source_data
         IN (IF sd.kind = "none" THEN <<>>
             ELSE IF sd.kind = "text_str"
             THEN <<GroundingItem(<<>>, "", sd.content)>>
             ELSE <<GroundingItem(sd.title, sd.company, sd.content)>>)
            \o ReferenceGrounding(Tail(refs))

\* the grounding data of _synthesize_answer_from_grounding_data: the parsed
\* text, or else what the references carry
SynthesisGrounding(raw_content, references) ==
    LET parsed == IF raw_content.length > 0 /\ raw_content.json
                  THEN raw_content.items ELSE <<>>
    IN IF parsed = <<>> /\ references # <<>>
       THEN ReferenceGrounding(SubSeq(references, 1, Min(5, Len(references))))
       ELSE parsed

\* the set of the companies the items name
Companies(grounding) ==
    { grounding[i].company : i \in 1..Len(grounding) } \ {""}

\* the key findings of _fallback_structured_response: of the first 3 items
\* those with more than 100 characters, each under its title and cut to 400
RECURSIVE KeyFindings(_, _)
KeyFindings(grounding, i) ==
    IF i > Min(3, Len(grounding)) THEN <<>>
    ELSE (IF grounding[i].content > 100
          THEN <<[title |-> IF grounding[i].title = <<>>
                            THEN <<"Document ", ToString(i)>>
                            ELSE grounding[i].title,
                  snippet |-> Min(grounding[i].content, 400),
                  ellipsis |-> grounding[i].content > 400]>>
          ELSE <<>>)
         \o KeyFindings(grounding, i + 1)

\* _fallback_structured_response
FallbackStructuredResponse(grounding) ==
    [kind |-> "structured_summary",
     companies |-> Companies(grounding),
     findings |-> KeyFindings(grounding, 1),
     sections |-> Len(grounding)]

\* _generate_llm_synthesized_answer: the answer of a completion call over a
\* prompt built from up to 5 items, or the structured summary when it fails
AgenticSynthesis(grounding, completion) ==
    IF completion.ok
    THEN [kind |-> "llm_synthesis", items |-> Min(5, Len(grounding))]
    ELSE FallbackStructuredResponse(grounding)

\* whether reading one of the first 5 references raises
ReadingRaises(references) ==
    \E i \in 1..Min(5, Len(references)) : references[i].raises

\* _synthesize_answer_from_grounding_data
SynthesizeAnswer(raw_content, references, completion) ==
    LET parsed == IF raw_content.length > 0 /\ raw_content.json
                  THEN raw_content.items ELSE <<>>
        grounding == SynthesisGrounding(raw_content, references)
    IN IF parsed = <<>> /\ ReadingRaises(references)
       THEN [kind |-> "analysis_error"]
       ELSE IF grounding # <<>>
       THEN AgenticSynthesis(grounding, completion)
       ELSE [kind |-> "no_analysis"]

\* _extract_answer_from_response: the planner's text as it is, or an answer
\* synthesized from the grounding data
ExtractAnswer(response, completion) ==
    IF StartsWithJson(response.payload)
    THEN SynthesizeAnswer(response.payload, response.references, completion)
    ELSE IF response.payload.length > 50
    THEN [kind |-> "raw_content", head |-> response.payload.head,
          length |-> response.payload.length]
    ELSE SynthesizeAnswer(Payload(<<>>, 0, FALSE, <<>>), response.references,
                          completion)

\* whether _extract_answer_from_response makes the secondary completion call
SynthesisCalled(response) ==
    /\ StartsWithJson(response.payload) \/ response.payload.length <= 50
    /\ LET raw == IF StartsWithJson(response.payload) THEN response.payload
                  ELSE Payload(<<>>, 0, FALSE, <<>>)
           parsed == IF raw.length > 0 /\ raw.json THEN raw.items ELSE <<>>
       IN /\ ~(parsed = <<>> /\ ReadingRaises(response.references))
          /\ SynthesisGrounding(raw, response.references) # <<>>

\* the tokens the secondary completion call of _generate_llm_synthesized_answer
\* consumes
SynthesisCallTokens(response, completion) ==
    IF response.ok /\ SynthesisCalled(response) /\ completion.ok
    THEN completion.total_tokens
    ELSE 0

\* the document the search index holds under a doc_key
IndexedDocument(lookup) ==
    [title |-> IF lookup = "hit" THEN <<"Tesla 10-K 2022">> ELSE <<>>,
     company |-> "Tesla", content |-> 700]

\* _lookup_document_metadata: the fields of the first document found, the
\* content cut to 500 characters; nothing when none is found or the search
\* raises
LookupDocumentMetadata(ref) ==
    IF ref.lookup \in {"miss", "raises"}
    THEN [title |-> <<>>, company |-> "", content |-> 0]
    ELSE [title |-> IndexedDocument(ref.lookup).title,
          company |-> IndexedDocument(ref.lookup).company,
          content |-> Min(IndexedDocument(ref.lookup).content, 500)]

\* the title _format_citations_from_references infers from the doc_key
InferTitle(doc_key, i) ==
    IF doc_key = <<>> THEN <<"Document ", ToString(i)>>
    ELSE IF Len(doc_key) >= 2
    THEN <<"SEC Filing ", doc_key[1], " - Section ", doc_key[2]>>
    ELSE <<"Document ", doc_key[1]>>

\* the lengths of "Content available in financial document" and of "Error
\* extracting citation details"
DefaultContentLen == 39
ErrorContentLen == 33

\* the fields a citation takes from the source data or from the lookup
CitationFields(ref, search_client) ==
    LET sd == ref.source_data
        lookup_attempted == /\ sd.kind = "none"
                            /\ ref.doc_key # <<>>
                            /\ search_client
        metadata == IF lookup_attempted THEN LookupDocumentMetadata(ref)
                    ELSE [title |-> <<>>, company |-> "", content |-> 0]
    IN IF sd.kind \in {"dict", "json_str"}
       THEN [title |-> sd.title, content |-> sd.content,
             company |-> sd.company, lookup_attempted |-> FALSE]
       ELSE IF sd.kind = "text_str"
       THEN [title |-> <<>>, content |-> Min(sd.content, 500),
             company |-> "", lookup_attempted |-> FALSE]
       ELSE [title |-> metadata.title, content |-> metadata.content,
             company |-> metadata.company,
             lookup_attempted |-> lookup_attempted]

\* the citation of the except branch
ErrorCitation(i) ==
    [id |-> ToString(i), title |-> <<"Document ", ToString(i)>>,
     content |-> ErrorContentLen, company |-> "", lookup_attempted |-> FALSE,
     error |-> TRUE]

\* the body of the loop as it would be without a title inferred from the
\* doc_key
FormatCitationNoInference(ref, i, search_client) ==
    LET fields == CitationFields(ref, search_client)
    IN IF ref.raises THEN ErrorCitation(i)
       ELSE [id |-> ToString(i), title |-> fields.title,
             content |-> IF fields.content = 0 THEN DefaultContentLen
                         ELSE fields.content,
             company |-> fields.company,
             lookup_attempted |-> fields.lookup_attempted,
             error |-> FALSE]

\* the body of the loop of _format_citations_from_references, for the
\* reference at position i (the id is the text of i)
FormatCitation(ref, i, search_client) ==
    LET fields == CitationFields(ref, search_client)
    IN IF ref.raises THEN ErrorCitation(i)
       ELSE [id |-> ToString(i),
             title |-> IF fields.title = <<>> THEN InferTitle(ref.doc_key, i)
                       ELSE fields.title,
             content |-> IF fields.content = 0 THEN DefaultContentLen
                         ELSE fields.content,
             company |-> fields.company,
             lookup_attempted |-> fields.lookup_attempted,
             error |-> FALSE]

\* _format_citations_from_references: one citation per reference
FormatCitations(references, search_client) ==
    [i \in 1..Len(references) |->
        FormatCitation(references[i], i, search_client)]

RECURSIVE SumInput(_)
SumInput(a) == IF a = <<>> THEN 0 ELSE Head(a).input_tokens + SumInput(Tail(a))

RECURSIVE SumOutput(_)
SumOutput(a) ==
    IF a = <<>> THEN 0 ELSE Head(a).output_tokens + SumOutput(Tail(a))

RECURSIVE SumRanker(_)
SumRanker(a) ==
    IF a = <<>> THEN 0
    ELSE (IF Head(a).ranker THEN Head(a).input_tokens ELSE 0)
         + SumRanker(Tail(a))

\* the entries of a trace that are read before one raises
RECURSIVE ReadableEntries(_)
ReadableEntries(a) ==
    IF a = <<>> \/ Head(a).raises THEN <<>>
    ELSE <<Head(a)>> \o ReadableEntries(Tail(a))

\* _extract_token_usage_from_response: the counts of the usage property, the
\* tokens of the activity steps added to them, and a total that is computed
\* only when the usage property left it 0 and no step raised
ExtractTokenUsage(response) ==
    LET read == ReadableEntries(response.activity)
        prompt == response.usage.prompt_tokens + SumInput(read)
        completion == response.usage.completion_tokens + SumOutput(read)
    IN [prompt_tokens |-> prompt,
        completion_tokens |-> completion,
        total_tokens |-> IF /\ response.usage.total_tokens = 0
                            /\ read = response.activity
                         THEN prompt + completion
                         ELSE response.usage.total_tokens,
        query_planning_tokens |-> SumInput(read) + SumOutput(read),
        semantic_ranking_tokens |-> SumRanker(read)]

\* the category _extract_activity_steps_from_response gives a class name
StepCategory(type) ==
    IF type = "KnowledgeAgentModelQueryPlanningActivityRecord" THEN "search"
    ELSE IF type = "KnowledgeAgentSemanticRankerActivityRecord"
    THEN "ranking"
    ELSE "processing"

\* the step _extract_activity_steps_from_response makes up when the trace
\* has no entry
SyntheticStep ==
    [id |-> 1, step_number |-> 1, type |-> "AgenticRetrievalQuery",
     category |-> "search", subquery |-> "Subquery 1: Complex query processed"]

\* the step of the except branch
ErrorStep ==
    [id |-> 1, step_number |-> 1, type |-> "AgenticRetrievalQuery",
     category |-> "search", subquery |-> "Subquery 1: Error processing query"]

\* the step of the trace entry at position i
ActivityStep(activity, i) ==
    [id |-> i, step_number |-> i, type |-> activity.type,
     category |-> StepCategory(activity.type),
     input_tokens |-> activity.input_tokens,
     output_tokens |-> activity.output_tokens]

\* _extract_activity_steps_from_response as it would be without the step
\* made up for a trace without entries
ExtractActivityStepsNoDefault(response) ==
    IF \E i \in 1..Len(response.activity) : response.activity[i].raises
    THEN <<ErrorStep>>
    ELSE [i \in 1..Len(response.activity) |->
             ActivityStep(response.activity[i], i)]

\* _extract_activity_steps_from_response
ExtractActivitySteps(response) ==
    IF \E i \in 1..Len(response.activity) : response.activity[i].raises
    THEN <<ErrorStep>>
    ELSE IF response.activity = <<>>
    THEN <<SyntheticStep>>
    ELSE [i \in 1..Len(response.activity) |->
             ActivityStep(response.activity[i], i)]

\* no result: the call raised
NoResult == [success |-> FALSE, raised |-> TRUE]

\* _perform_agentic_retrieval; recorded holds the arguments of its call of
\* token_tracker.record_token_usage
PerformAgenticRetrieval(st, plan, completion) ==
    IF ~st.knowledge_agent_client
    THEN [raised |-> TRUE,
          exc |-> <<"Knowledge agent client not available. ">>,
          recorded |-> <<>>,
          result |-> NoResult]
    ELSE IF ~plan.ok
    THEN [raised |-> TRUE, exc |-> <<plan.err>>, recorded |-> <<>>,
          result |-> NoResult]
    ELSE [raised |-> FALSE, exc |-> <<>>,
          recorded |-> <<UsageRecord(ExtractTokenUsage(plan).prompt_tokens,
                                     ExtractTokenUsage(plan).completion_tokens,
                                     TRUE)>>,
          result |->
            [answer |-> ExtractAnswer(plan, completion),
             citations |-> FormatCitations(plan.references, TRUE),
             query_rewrites |-> <<>>,
             activity_steps |-> ExtractActivitySteps(plan),
             token_usage |-> ExtractTokenUsage(plan),
             success |-> TRUE,
             retrieval_method |-> "agentic"]]

\* process_question as it would be with a fallback to hybrid search when the
\* retrieval raises
AgenticProcessQuestionWithFallback(st, outcome, err, plan, completion) ==
    LET init == AgenticEnsureInitialized(st, outcome, err)
        retrieval == PerformAgenticRetrieval(init.st, plan, completion)
    IN IF init.raised
       THEN [raised |-> TRUE,
             exc |-> <<"Agentic retrieval failed: ">> \o init.exc,
             recorded |-> <<UsageRecord(0, 0, FALSE)>>,
             result |-> NoResult, st |-> init.st]
       ELSE IF retrieval.raised
       THEN [raised |-> FALSE, exc |-> <<>>,
             recorded |-> <<UsageRecord(0, 0, FALSE)>>,
             result |->
               [answer |-> NoDocumentsAnswer,
                citations |-> <<>>,
                query_rewrites |-> <<>>,
                token_usage |-> TokenUsage(0, 0, 0),
                success |-> TRUE,
                retrieval_method |-> "hybrid_fallback"],
             st |-> init.st]
       ELSE [raised |-> FALSE, exc |-> <<>>,
             recorded |-> retrieval.recorded,
             result |-> retrieval.result, st |-> init.st]

\* AgenticVectorRAGService.process_question
AgenticProcessQuestion(st, outcome, err, plan, completion) ==
    LET init == AgenticEnsureInitialized(st, outcome, err)
        retrieval == PerformAgenticRetrieval(init.st, plan, completion)
    IN IF init.raised
       THEN [raised |-> TRUE,
             exc |-> <<"Agentic retrieval failed: ">> \o init.exc,
             recorded |-> <<UsageRecord(0, 0, FALSE)>>,
             result |-> NoResult, st |-> init.st]
       ELSE IF retrieval.raised
       THEN [raised |-> TRUE,
             exc |-> <<"Agentic retrieval failed: ">> \o retrieval.exc,
             recorded |-> <<UsageRecord(0, 0, FALSE)>>,
             result |-> NoResult, st |-> init.st]
       ELSE [raised |-> FALSE, exc |-> <<>>,
             recorded |-> retrieval.recorded,
             result |-> retrieval.result, st |-> init.st]

\* ------------------------------------------------- conversation messages

\* the number of history messages _build_conversation_messages looks at,
\* with and without the agentic SDK
HistoryWindow == 8
FallbackHistoryWindow == 5

\* the lengths of the content of a history message
HistoryContents == {0, 40, 200000}

\* a message of the conversation history; turn is its position in the
\* history
HistoryMessage(role, content, turn) ==
    [role |-> role, content |-> content, turn |-> turn]

\* a history of n messages of 40 characters, user and assistant in turn,
\* with the message at position k (if any) made long, empty or a system
\* message
MakeHistory(n, k, kind) ==
    [i \in 1..n |->
        HistoryMessage(IF i = k /\ kind = "system" THEN "system"
                       ELSE IF i % 2 = 1 THEN "user" ELSE "assistant",
                       IF i = k /\ kind = "long" THEN 200000
                       ELSE IF i = k /\ kind = "empty" THEN 0
                       ELSE 40,
                       i)]

Histories ==
    { MakeHistory(n, k, kind) :
        n \in 0..MaxHistory, k \in 0..MaxHistory,
        kind \in {"long", "empty", "system"} }

\* the last n elements of a sequence: s[-n:]
LastN(s, n) == SubSeq(s, Len(s) - Min(n, Len(s)) + 1, Len(s))

\* the messages of the history that have content and the role of a user or
\* of an assistant
RECURSIVE EligibleMessages(_)
EligibleMessages(history) ==
    IF history = <<>> THEN <<>>
    ELSE (IF Head(history).content > 0
             /\ Head(history).role \in {"user", "assistant"}
          THEN <<Head(history)>> ELSE <<>>)
         \o EligibleMessages(Tail(history))

\* the current question in the wrapper of _build_conversation_messages
EnhancedQuestion(question) ==
    [role |-> "user", question |-> question, turn |-> 0]

\* _build_conversation_messages
BuildConversationMessages(question, history, imports) ==
    EligibleMessages(LastN(history, IF imports THEN HistoryWindow
                                    ELSE FallbackHistoryWindow))
    \o <<EnhancedQuestion(question)>>

\* =============================================================== RAG stream

\* the modes chat_stream hands to handle_rag_modes
RagModes == {"agentic-rag", "fast-rag", "mcp-rag", "deep-research-rag"}

\* the modes the orchestrator plans for
LegacyModes == {"context-aware-generation", "qa-verification",
                "adaptive-kb-management"}

\* a mode that names no strategy
UnknownModes == {"wide-research"}

\* the values of the mode field of a ChatRequest
AllModes == RagModes \cup LegacyModes \cup UnknownModes

\* Route as it would be with a silent default: a mode that names no strategy
\* is served as fast-rag
RouteDefaultFast(mode) ==
    IF mode \in RagModes THEN mode
    ELSE IF mode \in LegacyModes THEN "legacy"
    ELSE "fast-rag"

\* the dispatch of chat_stream: the four RAG modes go to handle_rag_modes,
\* which branches on the mode; every other mode goes to handle_legacy_modes
Route(mode) == IF mode \in RagModes THEN mode ELSE "legacy"

\* OrchestratorAgent.create_plan: the agents that serve a mode; a mode that
\* names no strategy is an error
CreatePlan(mode) ==
    IF mode = "context-aware-generation"
    THEN [raised |-> FALSE, exc |-> <<>>,
          plan |-> <<"RetrieverAgent", "WriterAgent">>]
    ELSE IF mode = "qa-verification"
    THEN [raised |-> FALSE, exc |-> <<>>,
          plan |-> <<"RetrieverAgent", "VerifierAgent", "WriterAgent">>]
    ELSE IF mode = "adaptive-kb-management"
    THEN [raised |-> FALSE, exc |-> <<>>, plan |-> <<"CuratorAgent">>]
    ELSE [raised |-> TRUE, exc |-> <<"Unknown mode: ", mode>>, plan |-> <<>>]

\* the session store during one request: it works, the save of the user
\* message raises, or the save of the assistant message raises
StoreOutcomes == {"ok", "first_save_fails", "second_save_fails"}

\* str(e) of a failing session store
StoreErrorText == <<"Cosmos DB request failed">>

\* str(e) of the TypeError of the call of process_deep_research_rag, which
\* takes three parameters and is called with four arguments
DeepResearchErrorText ==
    <<"process_deep_research_rag() takes 3 positional arguments but 4 were given">>

\* the texts that are str(e) of an exception raised below the API layer
RawExceptionTexts ==
    UpstreamErrors
    \cup { NameErrorText[1], StoreErrorText[1], DeepResearchErrorText[1],
           HealthErrorText("503")[1], HealthErrorText("raise")[1] }

\* whether a text, a sequence of fragments, holds raw exception text
HoldsRawExceptionText(text) ==
    \E k \in 1..Len(text) : text[k] \in RawExceptionTexts

\* the except branch of generate(): one error event with str(e)
ErrorEvent(exc) == [type |-> "error", error |-> exc]

\* the opening metadata event
MetadataEvent(mode) == [type |-> "metadata", mode |-> mode]

\* the events generate() yields for a processor's result, up to the
\* processing metadata
ResultEvents(result) ==
    <<[type |-> "answer_complete", answer |-> result.answer]>>
    \o (IF result.citations # <<>>
        THEN <<[type |-> "citations", citations |-> result.citations]>>
        ELSE <<>>)
    \o (IF result.query_rewrites # <<>>
        THEN <<[type |-> "query_rewrites",
                rewrites |-> result.query_rewrites]>>
        ELSE <<>>)
    \o <<[type |-> "token_usage", usage |-> result.token_usage]>>
    \o <<[type |-> "processing",
          retrieval_method |-> result.retrieval_method,
          success |-> result.success]>>

\* the tail of generate() as it would be if done followed a failed save
AfterResultAlwaysDone(mode, result, store) ==
    <<MetadataEvent(mode)>> \o ResultEvents(result)
    \o (IF store = "second_save_fails"
        THEN <<ErrorEvent(StoreErrorText)>>
        ELSE <<>>)
    \o <<[type |-> "done"]>>

\* the tail of generate() after the processor returned
AfterResult(mode, result, store) ==
    <<MetadataEvent(mode)>> \o ResultEvents(result)
    \o (IF store = "second_save_fails"
        THEN <<ErrorEvent(StoreErrorText)>>
        ELSE <<[type |-> "done"]>>)

\* generate() of handle_rag_modes after ensure_initialized returned: the
\* events of the stream, the calls made in their order, and the state in
\* which the two services are left
RagDispatch(mode, q, hits, st, mcp, in) ==
    LET agentic == AgenticProcessQuestion(st, in.init, in.err, in.plan,
                                          in.completion)
        fast == ProcessFastRag(q, hits, in.embed_ok, in.search_ok,
                               in.completion)
        protocol == ProcessMcpRag(q, hits, mcp.initialized, mcp.client,
                                  in.health, in.post, in.completion)
        opening == <<"ensure_initialized", "save_session_history",
                     "get_conversation_context">>
    IN IF in.store = "first_save_fails"
       THEN [events |-> <<ErrorEvent(StoreErrorText)>>,
             calls |-> <<"ensure_initialized", "save_session_history">>,
             st |-> st, mcp |-> mcp]
       ELSE IF mode = "agentic-rag"
       THEN [events |->
               IF agentic.raised
               THEN <<MetadataEvent(mode), ErrorEvent(agentic.exc)>>
               ELSE AfterResult(mode, agentic.result, in.store),
             calls |-> opening \o <<"agentic_process_question">>
                       \o (IF agentic.raised THEN <<>>
                           ELSE <<"save_session_history">>),
             st |-> agentic.st, mcp |-> mcp]
       ELSE IF mode = "fast-rag"
       THEN [events |-> AfterResult(mode, fast.result, in.store),
             calls |-> opening
                       \o <<"process_fast_rag", "save_session_history">>,
             st |-> st, mcp |-> mcp]
       ELSE IF mode = "mcp-rag"
       THEN [events |-> AfterResult(mode, protocol.result, in.store),
             calls |-> opening
                       \o <<"process_mcp_rag", "save_session_history">>,
             st |-> st,
             mcp |-> [initialized |-> protocol.initialized,
                      client |-> protocol.client]]
       ELSE IF mode = "deep-research-rag"
       THEN [events |->
               <<MetadataEvent(mode), ErrorEvent(DeepResearchErrorText)>>,
             calls |-> opening \o <<"process_deep_research_rag">>,
             st |-> st, mcp |-> mcp]
       ELSE [events |->
               <<MetadataEvent(mode),
                 ErrorEvent(<<"Unsupported RAG mode: ", mode>>)>>,
             calls |-> opening,
             st |-> st, mcp |-> mcp]

\* generate() as it would be without the call of ensure_initialized
RagStreamWithoutInitialization(mode, q, hits, st, mcp, in) ==
    LET r == RagDispatch(mode, q, hits, st, mcp, in)
    IN [events |-> r.events, calls |-> Tail(r.calls), st |-> r.st,
        mcp |-> r.mcp]

\* generate() of handle_rag_modes: ensure_initialized first, and a single
\* error event when it raises
RagStream(mode, q, hits, st, mcp, in) ==
    LET init == AgenticEnsureInitialized(st, in.init, in.err)
    IN IF init.raised
       THEN [events |-> <<ErrorEvent(init.exc)>>,
             calls |-> <<"ensure_initialized">>,
             st |-> init.st, mcp |-> mcp]
       ELSE RagDispatch(mode, q, hits, init.st, mcp, in)

\* the exceptions of the orchestrator
RunStreamErrorText == <<"Stream processing failed">>

PlanCreationErrorText == <<"Plan creation failed">>

\* the tokens orchestrator.run_stream can yield
StreamTokens == {"token1", "token2"}

\* runs of orchestrator.run_stream: the tokens it yields, and whether it
\* then raises or ends
RunStreams ==
    { [tokens |-> ts, raises |-> r] :
        ts \in SeqsUpTo(StreamTokens, MaxTokens), r \in BOOLEAN }

\* the token events of generate, one per token
TokenEvents(tokens) ==
    [i \in 1..Len(tokens) |-> [type |-> "token", token |-> tokens[i]]]

\* handle_legacy_modes as it would be if the error event replaced the stream
HandleLegacyModesResponseErrorOnly(mode, plan_fails, run) ==
    LET created == IF plan_fails
                   THEN [raised |-> TRUE, exc |-> PlanCreationErrorText,
                         plan |-> <<>>]
                   ELSE CreatePlan(mode)
    IN IF created.raised
       THEN [status |-> 500, detail |-> created.exc, events |-> <<>>]
       ELSE [status |-> 200, detail |-> <<>>,
             events |-> IF run.raises
                        THEN <<ErrorEvent(RunStreamErrorText)>>
                        ELSE TokenEvents(run.tokens) \o <<[type |-> "done"]>>]

\* handle_legacy_modes: HTTP 500 when create_plan raises, else a stream of
\* one token event per token of the orchestrator, closed by done, or by an
\* error event when run_stream raises
HandleLegacyModesResponse(mode, plan_fails, run) ==
    LET created == IF plan_fails
                   THEN [raised |-> TRUE, exc |-> PlanCreationErrorText,
                         plan |-> <<>>]
                   ELSE CreatePlan(mode)
    IN IF created.raised
       THEN [status |-> 500, detail |-> created.exc, events |-> <<>>]
       ELSE [status |-> 200, detail |-> <<>>,
             events |-> TokenEvents(run.tokens)
                        \o (IF run.raises
                            THEN <<ErrorEvent(RunStreamErrorText)>>
                            ELSE <<[type |-> "done"]>>)]

\* ================================================================== actions

\* nothing has been called yet
NoCall == [op |-> "none"]

\* the state of the two service singletons
CurrentAgentic ==
    AgenticState(agentic_enabled, knowledge_agent_client, index_client)

CurrentMcp == [initialized |-> mcp_initialized, client |-> mcp_client]

\* the outcomes an initialization can have from the current state: none is
\* asked for once the service is initialized
InitChoices == IF IsInitialized(CurrentAgentic) THEN {"ok"} ELSE InitOutcomes

HealthChoices == IF mcp_initialized THEN {"200"} ELSE HttpOutcomes

\* a direct call of retriever.invoke
Invoke ==
    /\ \E embed_ok \in BOOLEAN, search_ok \in BOOLEAN :
          ret' = InvokeResult(query, index_hits, embed_ok, search_ok)
    /\ UNCHANGED <<env_vars, agentic_vars, mcp_vars>>

\* a call of retriever.invoke with explicit filters
InvokeWithFilters ==
    /\ \E filters \in FilterMaps, search_ok \in BOOLEAN :
          ret' = [filters |-> filters, filter |-> SearchFilter(filters)]
                 @@ InvokeResult(query, index_hits, TRUE, search_ok)
    /\ UNCHANGED <<env_vars, agentic_vars, mcp_vars>>

\* the citation loop of process_fast_rag, run on the documents invoke
\* returns for the hits of the index
FastCitationsCall ==
    /\ LET docs == InvokeResult(query, index_hits, TRUE, TRUE).docs
       IN ret' = [op |-> "fast_citations", raised |-> FALSE,
                  docs |-> docs,
                  citations |-> FastCitations(docs, 1)]
    /\ UNCHANGED <<env_vars, agentic_vars, mcp_vars>>

\* the citation loop of MCPRAGService.process_question, run on the documents
\* the HTTP API server returns for the hits of the index
McpCitationsCall ==
    /\ LET docs == McpSearchDocuments(index_hits, "200")
       IN ret' = [op |-> "mcp_citations", raised |-> FALSE,
                  docs |-> docs,
                  citations |-> McpCitations(docs, 1)]
    /\ UNCHANGED <<env_vars, agentic_vars, mcp_vars>>

\* a call of process_fast_rag
ProcessFastRagCall ==
    /\ \E embed_ok \in BOOLEAN, search_ok \in BOOLEAN,
          completion \in Completions :
          LET r == ProcessFastRag(query, index_hits, embed_ok, search_ok,
                                  completion)
          IN ret' = [op |-> "process_fast_rag", raised |-> FALSE,
                     embed_ok |-> embed_ok, search_ok |-> search_ok,
                     completion_ok |-> completion.ok,
                     result |-> r.result, calls |-> r.calls]
    /\ UNCHANGED <<env_vars, agentic_vars, mcp_vars>>

\* a call of process_mcp_rag
ProcessMcpRagCall ==
    /\ \E health \in HealthChoices, post \in HttpOutcomes,
          completion \in Completions :
          LET r == ProcessMcpRag(query, index_hits, mcp_initialized,
                                 mcp_client, health, post, completion)
          IN /\ ret' = [op |-> "process_mcp_rag", raised |-> FALSE,
                        health |-> health, search_ok |-> (post = "200"),
                        completion_ok |-> completion.ok,
                        result |-> r.result, calls |-> r.calls]
             /\ mcp_initialized' = r.initialized
             /\ mcp_client' = r.client
    /\ UNCHANGED <<env_vars, agentic_vars>>

\* a call of process_deep_research_rag with its three arguments
ProcessDeepResearchRagCall ==
    /\ \E tracker_ok \in BOOLEAN, agents_result \in DeepResearchOutcomes :
          ret' = [op |-> "process_deep_research_rag", raised |-> FALSE,
                  tracker_ok |-> tracker_ok,
                  result |-> ProcessDeepResearchRag(query, tracker_ok,
                                                    agents_result)]
    /\ UNCHANGED <<env_vars, agentic_vars, mcp_vars>>

\* a call of initialize, as at application startup
AgenticInitializeCall ==
    /\ \E outcome \in InitOutcomes :
          LET r == AgenticInitialize(CurrentAgentic, outcome,
                                     "Request timed out")
          IN /\ ret' = [op |-> "initialize", raised |-> r.raised,
                        exc |-> r.exc, init_ok |-> IsInitialized(r.st)]
             /\ agentic_enabled' = r.st.agentic_enabled
             /\ knowledge_agent_client' = r.st.knowledge_agent_client
             /\ index_client' = r.st.index_client
    /\ UNCHANGED <<env_vars, mcp_vars>>

\* a call of ensure_initialized
AgenticEnsureInitializedCall ==
    /\ \E outcome \in InitChoices :
          LET r == AgenticEnsureInitialized(CurrentAgentic, outcome,
                                            "Request timed out")
          IN /\ ret' = [op |-> "ensure_initialized", raised |-> r.raised,
                        exc |-> r.exc, init_ok |-> IsInitialized(r.st)]
             /\ agentic_enabled' = r.st.agentic_enabled
             /\ knowledge_agent_client' = r.st.knowledge_agent_client
             /\ index_client' = r.st.index_client
    /\ UNCHANGED <<env_vars, mcp_vars>>

\* a call of agentic_rag_service.process_question
AgenticProcessQuestionCall ==
    /\ \E outcome \in InitChoices, plan \in PlanOutcomes,
          completion \in Completions :
          LET r == AgenticProcessQuestion(CurrentAgentic, outcome,
                                          "Request timed out", plan,
                                          completion)
          IN /\ ret' = [op |-> "agentic_process_question",
                        raised |-> r.raised, exc |-> r.exc,
                        init_ok |-> IsInitialized(r.st),
                        plan_ok |-> plan.ok,
                        activity |-> plan.activity,
                        synthesis_tokens |->
                            SynthesisCallTokens(plan, completion),
                        result |-> r.result]
             /\ agentic_enabled' = r.st.agentic_enabled
             /\ knowledge_agent_client' = r.st.knowledge_agent_client
             /\ index_client' = r.st.index_client
    /\ UNCHANGED <<env_vars, mcp_vars>>

\* the inputs of a stream that its mode does not use
DefaultPlan ==
    [ok |-> TRUE, err |-> "", payload |-> ProsePayload, references |-> <<>>,
     activity |-> <<>>, usage |-> NoUsage]

\* one request that chat_stream hands to handle_rag_modes
HandleRagModes ==
    /\ \E mode \in AllModes, outcome \in InitChoices, store \in StoreOutcomes :
       /\ Route(mode) # "legacy"
       /\ \E plan \in (IF Route(mode) = "agentic-rag" THEN PlanOutcomes
                       ELSE {DefaultPlan}),
             completion \in (IF Route(mode) = "deep-research-rag"
                             THEN {CHOOSE c \in Completions : c.ok}
                             ELSE Completions),
             embed_ok \in (IF Route(mode) = "fast-rag" THEN BOOLEAN
                           ELSE {TRUE}),
             search_ok \in (IF Route(mode) = "fast-rag" THEN BOOLEAN
                            ELSE {TRUE}),
             health \in (IF Route(mode) = "mcp-rag" THEN HealthChoices
                         ELSE {"200"}),
             post \in (IF Route(mode) = "mcp-rag" THEN HttpOutcomes
                       ELSE {"200"}) :
             LET in == [init |-> outcome, err |-> "Request timed out",
                        store |-> store, plan |-> plan,
                        completion |-> completion, embed_ok |-> embed_ok,
                        search_ok |-> search_ok, health |-> health,
                        post |-> post]
                 r == RagStream(Route(mode), query, index_hits,
                                CurrentAgentic, CurrentMcp, in)
             IN /\ ret' = [op |-> "handle_rag_modes", raised |-> FALSE,
                           mode |-> mode,
                           status |-> 200,
                           init_ok |-> IsInitialized(r.st),
                           store |-> store,
                           plan_ok |-> plan.ok,
                           calls |-> r.calls,
                           events |-> r.events]
                /\ agentic_enabled' = r.st.agentic_enabled
                /\ knowledge_agent_client' = r.st.knowledge_agent_client
                /\ index_client' = r.st.index_client
                /\ mcp_initialized' = r.mcp.initialized
                /\ mcp_client' = r.mcp.client
    /\ UNCHANGED env_vars

\* one request that chat_stream hands to handle_legacy_modes
HandleLegacyModes ==
    /\ \E mode \in AllModes, plan_fails \in BOOLEAN, run \in RunStreams :
       /\ Route(mode) = "legacy"
       /\ LET r == HandleLegacyModesResponse(mode, plan_fails, run)
          IN ret' = [op |-> "handle_legacy_modes", raised |-> FALSE,
                     mode |-> mode,
                     plan_fails |-> plan_fails,
                     run |-> run,
                     status |-> r.status,
                     detail |-> r.detail,
                     events |-> r.events]
    /\ UNCHANGED <<env_vars, agentic_vars, mcp_vars>>

\* ------------------------------------------------ retriever specification
\* the search index answers with any hit list; invoke is called on it
InitRetriever ==
    /\ query \in Queries
    /\ index_hits \in UNION { HitLists(n, ScoreVals, RerankVals, {400}, {<<>>},
                                        {"Apple"}) :
                               n \in 0..MaxHits }
    /\ imports_available = TRUE
    /\ agentic_enabled = TRUE
    /\ knowledge_agent_client = FALSE
    /\ index_client = FALSE
    /\ mcp_initialized = FALSE
    /\ mcp_client = FALSE
    /\ ledger = <<>>
    /\ ret = NoCall

NextRetriever == Invoke

SpecRetriever == InitRetriever /\ [][NextRetriever]_vars

\* ----------------------------------------------- processor specification
\* the fast and the protocol processor are called on any small hit list
InitProcessors ==
    /\ query = "risk factors"
    /\ index_hits \in UNION { HitLists(n, {0, 80}, {250}, {0, 400}, {<<>>},
                                        CompanyVals) :
                               n \in 0..MaxPipeHits }
    /\ imports_available = TRUE
    /\ agentic_enabled = TRUE
    /\ knowledge_agent_client = FALSE
    /\ index_client = FALSE
    /\ mcp_initialized = FALSE
    /\ mcp_client = FALSE
    /\ ledger = <<>>
    /\ ret = NoCall

NextProcessors ==
    \/ ProcessFastRagCall
    \/ ProcessMcpRagCall
    \/ ProcessDeepResearchRagCall

SpecProcessors == InitProcessors /\ [][NextProcessors]_vars

\* ------------------------------------------------- citation specification
\* the citation loops are run on hits with and without semantic captions and
\* with contents shorter and longer than an excerpt
InitCitations ==
    /\ query = "risk factors"
    /\ index_hits \in UNION { HitLists(n, {80}, {250}, ContentVals,
                                        CaptionVals, {"Apple"}) :
                               n \in 0..MaxCiteHits }
    /\ imports_available = TRUE
    /\ agentic_enabled = TRUE
    /\ knowledge_agent_client = FALSE
    /\ index_client = FALSE
    /\ mcp_initialized = FALSE
    /\ mcp_client = FALSE
    /\ ledger = <<>>
    /\ ret = NoCall

NextCitations == FastCitationsCall \/ McpCitationsCall

SpecCitations == InitCitations /\ [][NextCitations]_vars

\* --------------------------------------------------- filter specification
\* invoke is called with every small filter map
InitFilter ==
    /\ query \in Queries
    /\ index_hits = <<>>
    /\ imports_available = TRUE
    /\ agentic_enabled = TRUE
    /\ knowledge_agent_client = FALSE
    /\ index_client = FALSE
    /\ mcp_initialized = FALSE
    /\ mcp_client = FALSE
    /\ ledger = <<>>
    /\ ret = NoCall

NextFilter == InvokeWithFilters

SpecFilter == InitFilter /\ [][NextFilter]_vars

\* ----------------------------------------------- agentic adapter specification
\* the planner has answered with any response; the adapter's steps are
\* applied to it

\* the responses of the planner
AgentResponses ==
    { [ok |-> TRUE, err |-> "", payload |-> p, references |-> r,
       activity |-> <<>>, usage |-> NoUsage] :
        p \in Payloads, r \in SeqsUpTo(References, MaxRefs) }
    \cup
    { [ok |-> TRUE, err |-> "", payload |-> ProsePayload,
       references |-> <<>>, activity |-> a, usage |-> u] :
        a \in SeqsUpTo({PlanningEntry, RankerEntry, MalformedEntry},
                       MaxSteps),
        u \in ResponseUsages }

\* the response under examination
HasResponse == "response" \in DOMAIN ret

PerformAgenticRetrievalCall ==
    /\ HasResponse
    /\ \E completion \in Completions :
          ret' = [op |-> "perform_agentic_retrieval",
                  response |-> ret.response,
                  completion |-> completion,
                  synthesis_called |-> SynthesisCalled(ret.response),
                  retrieval |->
                      PerformAgenticRetrieval(AgenticState(TRUE, TRUE, TRUE),
                                              ret.response, completion)]
    /\ UNCHANGED <<env_vars, agentic_vars, mcp_vars>>

FormatCitationsCall ==
    /\ HasResponse
    /\ \E search_client \in BOOLEAN :
          ret' = [op |-> "format_citations",
                  response |-> ret.response,
                  search_client |-> search_client,
                  citations |-> FormatCitations(ret.response.references,
                                                search_client)]
    /\ UNCHANGED <<env_vars, agentic_vars, mcp_vars>>

InitAgentic ==
    /\ query = "risk factors"
    /\ index_hits = <<>>
    /\ imports_available = TRUE
    /\ agentic_enabled = TRUE
    /\ knowledge_agent_client = TRUE
    /\ index_client = TRUE
    /\ mcp_initialized = FALSE
    /\ mcp_client = FALSE
    /\ ledger = <<>>
    /\ ret \in { [op |-> "retrieve", response |-> r] : r \in AgentResponses }

NextAgentic == PerformAgenticRetrievalCall \/ FormatCitationsCall

SpecAgentic == InitAgentic /\ [][NextAgentic]_vars

\* --------------------------------------- conversation messages specification
\* a question arrives with any conversation history; the message list for the
\* planner is built from them
BuildConversationMessagesCall ==
    /\ "history" \in DOMAIN ret
    /\ ret' = [op |-> "build_conversation_messages",
               history |-> ret.history,
               messages |-> BuildConversationMessages(query, ret.history,
                                                      imports_available)]
    /\ UNCHANGED <<env_vars, agentic_vars, mcp_vars>>

InitMessages ==
    /\ query \in Queries
    /\ index_hits = <<>>
    /\ imports_available \in BOOLEAN
    /\ agentic_enabled = imports_available
    /\ knowledge_agent_client = FALSE
    /\ index_client = FALSE
    /\ mcp_initialized = FALSE
    /\ mcp_client = FALSE
    /\ ledger = <<>>
    /\ ret \in { [op |-> "question", history |-> h] : h \in Histories }

NextMessages == BuildConversationMessagesCall

SpecMessages == InitMessages /\ [][NextMessages]_vars

\* ------------------------------------------------------ ledger specification
\* process_question of the agentic and of the MCP service is called, and
\* the log of token_tracker is followed

\* token_tracker.start_tracking: a fresh id, the number of the request
NextTrackingId(log) ==
    Cardinality({ i \in 1..Len(log) : log[i].kind = "start" }) + 1

\* token_tracker.start_tracking: the request is entered under its id
StartTracking(log, service) ==
    Append(log, [kind |-> "start", id |-> NextTrackingId(log),
                 service |-> service])

\* token_tracker.record_token_usage, for each call a handler made of it
RECURSIVE RecordTokenUsage(_, _, _)
RecordTokenUsage(log, record_id, recorded) ==
    IF recorded = <<>> THEN log
    ELSE RecordTokenUsage(
             Append(log, [kind |-> "usage", id |-> record_id,
                          prompt_tokens |-> Head(recorded).prompt_tokens,
                          completion_tokens |->
                              Head(recorded).completion_tokens,
                          success |-> Head(recorded).success]),
             record_id, Tail(recorded))

\* the planner outcomes the ledger is followed with
LedgerPlans ==
    { p \in PlanOutcomes :
        p.ok => p.payload = ProsePayload /\ p.references = <<>> }

\* the requests the ledger holds
TrackedCalls == NextTrackingId(ledger) - 1

\* AgenticVectorRAGService.process_question with its calls of token_tracker
TrackedAgenticProcessQuestionCall ==
    /\ TrackedCalls < MaxCalls
    /\ \E outcome \in InitChoices, plan \in LedgerPlans,
          completion \in Completions :
          LET tracking_id == NextTrackingId(ledger)
              r == AgenticProcessQuestion(CurrentAgentic, outcome,
                                          "Request timed out", plan,
                                          completion)
          IN /\ ledger' = RecordTokenUsage(
                              StartTracking(ledger, "agentic_rag"),
                              tracking_id, r.recorded)
             /\ ret' = [op |-> "tracked_agentic_process_question",
                        tracking_id |-> tracking_id,
                        raised |-> r.raised, result |-> r.result]
             /\ agentic_enabled' = r.st.agentic_enabled
             /\ knowledge_agent_client' = r.st.knowledge_agent_client
             /\ index_client' = r.st.index_client
    /\ UNCHANGED <<query, index_hits, imports_available, mcp_vars>>

\* MCPRAGService.process_question with its calls of token_tracker
TrackedMcpProcessQuestionCall ==
    /\ TrackedCalls < MaxCalls
    /\ \E health \in HealthChoices, post \in HttpOutcomes,
          completion \in Completions :
          LET tracking_id == NextTrackingId(ledger)
              r == McpProcessQuestion(query, index_hits, mcp_initialized,
                                      mcp_client, health, post, completion)
          IN /\ ledger' = RecordTokenUsage(StartTracking(ledger, "mcp_rag"),
                                           tracking_id, r.recorded)
             /\ ret' = [op |-> "tracked_mcp_process_question",
                        tracking_id |-> tracking_id,
                        raised |-> FALSE, result |-> r.result]
             /\ mcp_initialized' = r.initialized
             /\ mcp_client' = r.client
    /\ UNCHANGED <<query, index_hits, imports_available, agentic_vars>>

InitLedger ==
    /\ query = "risk factors"
    /\ index_hits \in UNION { HitLists(n, {80}, {250}, {400}, {<<>>},
                                        {"Apple"}) :
                               n \in 0..MaxStreamHits }
    /\ imports_available \in BOOLEAN
    /\ agentic_enabled = imports_available
    /\ knowledge_agent_client = FALSE
    /\ index_client = FALSE
    /\ mcp_initialized = FALSE
    /\ mcp_client = FALSE
    /\ ledger = <<>>
    /\ ret = NoCall

NextLedger ==
    TrackedAgenticProcessQuestionCall \/ TrackedMcpProcessQuestionCall

SpecLedger == InitLedger /\ [][NextLedger]_vars

\* ---------------------------------------------------- stream specification
\* requests of every RAG mode are served, and the agentic service is called
Init ==
    /\ query = "risk factors"
    /\ index_hits \in UNION { HitLists(n, {80}, {250}, {400}, {<<>>},
                                        {"Apple"}) :
                               n \in 0..MaxStreamHits }
    /\ imports_available \in BOOLEAN
    /\ agentic_enabled = imports_available
    /\ knowledge_agent_client = FALSE
    /\ index_client = FALSE
    /\ mcp_initialized = FALSE
    /\ mcp_client = FALSE
    /\ ledger = <<>>
    /\ ret = NoCall

Next ==
    \/ AgenticInitializeCall
    \/ AgenticEnsureInitializedCall
    \/ AgenticProcessQuestionCall
    \/ HandleRagModes
    \/ HandleLegacyModes

Spec == Init /\ [][Next]_vars

\* ------------------------------------------------------- retriever claims

\* C1 (as claimed): every document invoke returns, on whatever path, has a
\* search score >= score_threshold and, if it carries a reranker score, a
\* reranker score >= reranker_threshold.
C1_ReturnedDocsPassThresholds ==
    ret.op = "invoke" =>
        \A i \in 1..Len(ret.docs) :
            /\ ret.docs[i].search_score >= score_threshold
            /\ ret.docs[i].reranker_score # NoScore
                  => ret.docs[i].reranker_score >= reranker_threshold

\* C2: the list invoke returns is ordered descending by the pair (reranker
\* score if present else 0, search score), and documents with equal pairs keep
\* the order in which the gateway returned them.
C2_OrderedByPairStable ==
    ret.op = "invoke" =>
        \A i, j \in 1..Len(ret.docs) :
            i < j =>
                LET a == ret.docs[i]
                    b == ret.docs[j]
                    ra == IF a.reranker_score = NoScore THEN 0
                          ELSE a.reranker_score
                    rb == IF b.reranker_score = NoScore THEN 0
                          ELSE b.reranker_score
                IN /\ ra >= rb
                   /\ ra = rb => a.search_score >= b.search_score
                   /\ (ra = rb /\ a.search_score = b.search_score)
                         => a.id < b.id

\* C2 witness: the sort moved a later hit in front of an earlier one and kept
\* two hits with equal pairs in gateway order.
C2_Witness ==
    /\ ret.op = "invoke"
    /\ ret.path = "search"
    /\ Len(ret.docs) = 3
    /\ ret.docs[1].id = 3
    /\ ret.docs[2].id = 1
    /\ ret.docs[3].id = 2
    /\ ret.docs[2].reranker_score = ret.docs[3].reranker_score
    /\ ret.docs[2].search_score = ret.docs[3].search_score

\* C3 (as claimed): with the default thresholds, the hits (0.8, 0.75) and
\* (0.3, 0.25) make invoke return exactly the first.
C3_HighScoringHitReturned ==
    ( /\ ret.op = "invoke"
      /\ ret.path = "search"
      /\ Len(index_hits) = 2
      /\ index_hits[1].score = 80 /\ index_hits[1].reranker = 75
      /\ index_hits[2].score = 30 /\ index_hits[2].reranker = 25 )
    => ( /\ Len(ret.docs) = 1
         /\ ret.docs[1].id = 1 )

\* C6: when the search call raises, invoke does not raise and returns a
\* non-empty list of fallback documents, each with a citation and a
\* search_score, whose search_query is the query that was asked.
C6_FallbackDocuments ==
    (ret.op = "invoke" /\ ret.path = "mock") =>
        /\ ~ret.raised
        /\ Len(ret.docs) > 0
        /\ \A i \in 1..Len(ret.docs) :
              /\ "citation" \in DOMAIN ret.docs[i]
              /\ ret.docs[i].citation
              /\ "search_score" \in DOMAIN ret.docs[i]
              /\ ret.docs[i].search_query = query

\* C6 witness: the search raised and the six mock documents came back.
C6_Witness ==
    /\ ret.op = "invoke"
    /\ ret.path = "mock"
    /\ Len(ret.docs) = 6
    /\ ret.docs[1].search_query = query

\* ------------------------------------------------------- processor claims

\* C4 (as claimed): if query embedding generation fails, the fast-mode
\* request built on the lexical-only search completes with success=true.
C4_EmbeddingFailureFastSucceeds ==
    (ret.op = "process_fast_rag" /\ ~ret.embed_ok) => ret.result.success

\* C5 (as claimed): if the search gateway call fails in fast or protocol
\* mode, the request returns the canned 'no relevant documents' result with
\* success=true, no citations and zero token usage.
C5_SearchFailureCannedResult ==
    ( /\ ret.op \in {"process_fast_rag", "process_mcp_rag"}
      /\ ~ret.search_ok
      /\ ret.op = "process_mcp_rag" => ret.calls.search = 1 )
    => ( /\ ret.result.success
         /\ ret.result.answer = [kind |-> "no_relevant_documents"]
         /\ ret.result.citations = <<>>
         /\ ret.result.token_usage
              = [prompt_tokens |-> 0, completion_tokens |-> 0,
                 total_tokens |-> 0] )

\* C7 (as claimed): when retrieval yields no hits, the fast and the protocol
\* processor return success=true, citations=[], all token counts 0 and the
\* 'no relevant documents' message, without a completion call.
C7_EmptyRetrievalCannedResult ==
    ( /\ ret.op \in {"process_fast_rag", "process_mcp_rag"}
      /\ ret.search_ok
      /\ index_hits = <<>>
      /\ ret.op = "process_mcp_rag" => ret.calls.search = 1 )
    => ( /\ ret.result.success
         /\ ret.result.answer = [kind |-> "no_relevant_documents"]
         /\ ret.result.citations = <<>>
         /\ ret.result.token_usage
              = [prompt_tokens |-> 0, completion_tokens |-> 0,
                 total_tokens |-> 0]
         /\ ret.calls.completion = 0 )

\* C8 (as claimed): if the completion call fails during LLM synthesis in fast
\* or protocol mode, the request still returns success=true, with an answer
\* assembled from the retrieved excerpts and all token counts 0.
C8_CompletionFailureExcerptAnswer ==
    ( /\ ret.op \in {"process_fast_rag", "process_mcp_rag"}
      /\ ~ret.completion_ok
      /\ ret.search_ok
      /\ \E i \in 1..Len(index_hits) : index_hits[i].score >= score_threshold
      /\ ret.op = "process_mcp_rag" => ret.calls.search = 1 )
    => ( /\ ret.result.success
         /\ ret.result.answer.kind \in {"excerpts", "structured_excerpts"}
         /\ ret.result.token_usage
              = [prompt_tokens |-> 0, completion_tokens |-> 0,
                 total_tokens |-> 0] )

\* ---------------------------------------------------------- stream claims

\* C9 (as claimed): when the planning call of the agentic strategy fails, the
\* caller receives a result with success=false, no citations and an answer
\* text without raw JSON.
C9_PlanningFailureResult ==
    ( /\ ret.op = "handle_rag_modes"
      /\ ret.mode = "agentic-rag"
      /\ ret.init_ok
      /\ ret.store # "first_save_fails"
      /\ ~ret.plan_ok )
    => ( /\ \E i \in 1..Len(ret.events) :
              /\ ret.events[i].type = "processing"
              /\ ~ret.events[i].success
         /\ \A i \in 1..Len(ret.events) :
              /\ ret.events[i].type # "citations"
              /\ ret.events[i].type = "error"
                   => \A k \in 1..Len(ret.events[i].error) :
                         ret.events[i].error[k] \notin JsonTexts )

\* C10: process_question of the agentic service raises whenever the
\* initialization or the planning call fails, and returns a result only when
\* the planning call succeeded, with success true and retrieval_method
\* 'agentic'.
C10_NoFallbackOnFailure ==
    ret.op = "agentic_process_question" =>
        /\ (~ret.init_ok \/ ~ret.plan_ok) => ret.raised
        /\ ~ret.raised =>
              /\ ret.plan_ok
              /\ ret.result.success
              /\ ret.result.retrieval_method = "agentic"

\* C10 witness: the service initialized, the planning call failed, and
\* process_question raised.
C10_Witness ==
    /\ ret.op = "agentic_process_question"
    /\ ret.init_ok
    /\ ~ret.plan_ok
    /\ ret.raised
    /\ ret.exc[1] = "Agentic retrieval failed: "

\* C11 (as claimed): in every successful result of a strategy, whether
\* returned by the agentic service or delivered by the stream of a fast,
\* protocol or agentic request, total_tokens equals prompt_tokens +
\* completion_tokens.
C11_TotalIsPromptPlusCompletion ==
    /\ (ret.op = "agentic_process_question" /\ ~ret.raised
          /\ ret.result.success)
         => ret.result.token_usage.total_tokens
              = ret.result.token_usage.prompt_tokens
                  + ret.result.token_usage.completion_tokens
    /\ ret.op = "handle_rag_modes"
         => \A i, j \in 1..Len(ret.events) :
               ( /\ ret.events[i].type = "token_usage"
                 /\ ret.events[j].type = "processing"
                 /\ ret.events[j].success )
               => ret.events[i].usage.total_tokens
                    = ret.events[i].usage.prompt_tokens
                        + ret.events[i].usage.completion_tokens

\* C12 (as claimed): when a request fails, the token_usage of the returned
\* result contains prompt_tokens = 0 and completion_tokens = 0, both present.
C12_FailureTokenUsageZeroNotOmitted ==
    ( /\ ret.op \in {"process_fast_rag", "process_mcp_rag",
                     "process_deep_research_rag"}
      /\ ~ret.result.success )
    => ( /\ "prompt_tokens" \in DOMAIN ret.result.token_usage
         /\ "completion_tokens" \in DOMAIN ret.result.token_usage
         /\ ret.result.token_usage.prompt_tokens = 0
         /\ ret.result.token_usage.completion_tokens = 0 )

\* C14: every result with success=false that a strategy processor returns
\* has an empty citations list.
C14_FailureHasNoCitations ==
    ( /\ ret.op \in {"process_fast_rag", "process_mcp_rag",
                     "process_deep_research_rag"}
      /\ ~ret.result.success )
    => ret.result.citations = <<>>

\* C14 witness: the protocol processor failed on the health probe while the
\* index held a hit that would have been cited.
C14_Witness ==
    /\ ret.op = "process_mcp_rag"
    /\ ret.health # "200"
    /\ ~ret.result.success
    /\ index_hits # <<>>
    /\ ret.result.citations = <<>>

\* C13 (as claimed): in the agentic token_usage the tokens of every activity
\* step and of the secondary synthesis call are counted, each in exactly one
\* of the planning, ranking and synthesis categories, and total_tokens is the
\* sum of the category counts.
C13_AgenticCategoriesReconcile ==
    (ret.op = "agentic_process_question" /\ ~ret.raised) =>
        LET tu == ret.result.token_usage
            synthesis == IF "synthesis_tokens" \in DOMAIN tu
                         THEN tu.synthesis_tokens ELSE 0
            categories == tu.query_planning_tokens
                            + tu.semantic_ranking_tokens + synthesis
        IN /\ categories = SumInput(ret.activity) + SumOutput(ret.activity)
                             + ret.synthesis_tokens
           /\ tu.total_tokens = categories

\* C15 (as claimed): no stream event delivered to the caller contains raw
\* exception text: neither an error event, nor the answer of a failed
\* result, nor its token usage.
C15_NoRawExceptionTextDelivered ==
    ret.op = "handle_rag_modes" =>
        \A i \in 1..Len(ret.events) :
            LET ev == ret.events[i]
            IN /\ ev.type = "error" => ~HoldsRawExceptionText(ev.error)
               /\ (ev.type = "answer_complete" /\ ev.answer.kind = "error")
                     => ~HoldsRawExceptionText(ev.answer.text)
               /\ (ev.type = "token_usage" /\ "error" \in DOMAIN ev.usage)
                     => ~HoldsRawExceptionText(ev.usage.error)

\* C16 (as claimed): the citations of a fast or protocol result carry the
\* ordinal ids 1..N in emission order, where N is the number of hits that
\* survived filtering (the documents the processor retrieved).
C16_CitationOrdinalsDense ==
    ret.op \in {"process_fast_rag", "process_mcp_rag"} =>
        /\ \A i \in 1..Len(ret.result.citations) :
              ret.result.citations[i].id = i
        /\ Len(ret.result.citations) = ret.result.documents_retrieved

\* C17 (as claimed): the content excerpt of every citation of a fast or
\* protocol result is at most 300 characters long.
C17_ExcerptAtMost300 ==
    ret.op \in {"process_fast_rag", "process_mcp_rag"} =>
        \A i \in 1..Len(ret.result.citations) :
            ret.result.citations[i].content <= 300

C19_FilterClause ==
    (ret.op = "invoke" /\ "filters" \in DOMAIN ret) =>
        LET RECURSIVE Escaped(_)
            Escaped(t) ==
                IF t = <<>> THEN <<>>
                ELSE (IF Head(t) = "'" THEN <<"'", "'">> ELSE <<Head(t)>>)
                     \o Escaped(Tail(t))
            Term(e) ==
                IF e.value.is_str
                THEN <<e.key, " eq ", "'">> \o Escaped(e.value.text)
                       \o <<"'">>
                ELSE <<e.key, " eq ">> \o e.value.text
            RECURSIVE Conjunction(_)
            Conjunction(es) ==
                IF es = <<>> THEN <<>>
                ELSE IF Len(es) = 1 THEN Term(es[1])
                ELSE Term(es[1]) \o <<" and ">> \o Conjunction(Tail(es))
        IN IF ret.filters = <<>>
           THEN ~ret.filter.present
           ELSE /\ ret.filter.present
                /\ ret.filter.clause = Conjunction(ret.filters)

C21_JsonPayloadNeverReturnedRaw ==
    ( /\ ret.op = "perform_agentic_retrieval"
      /\ ~ret.retrieval.raised
      /\ ret.response.payload.head # <<>>
      /\ ret.response.payload.head[1] \in {"[", "{"} )
    => ret.retrieval.result.answer.kind
          \in {"llm_synthesis", "structured_summary", "no_analysis",
               "analysis_error"}

\* C22 (as claimed): when the payload is JSON grounding data, the secondary
\* completion call is attempted first; the structured summary of the
\* grounding items (their companies, and findings from the first 3 items) is
\* the answer exactly when that call fails; and the result is a success.
C22_FallbackOrder ==
    ( /\ ret.op = "perform_agentic_retrieval"
      /\ ret.response.payload.head # <<>>
      /\ ret.response.payload.head[1] \in {"[", "{"}
      /\ ret.response.payload.json
      /\ ret.response.payload.items # <<>> )
    => LET answer == ret.retrieval.result.answer
           items == ret.response.payload.items
       IN /\ ~ret.retrieval.raised
          /\ ret.retrieval.result.success
          /\ ret.synthesis_called
          /\ ret.completion.ok => answer.kind = "llm_synthesis"
          /\ ~ret.completion.ok =>
                /\ answer.kind = "structured_summary"
                /\ answer.companies
                      = { items[i].company : i \in 1..Len(items) } \ {""}
                /\ Len(answer.findings) <= 3
                /\ \A i \in 1..Len(answer.findings) :
                      \E j \in 1..3 :
                         /\ j <= Len(items)
                         /\ answer.findings[i].snippet <= items[j].content

\* C23: the activity_steps of an agentic result are never empty: a trace that
\* is absent, empty or malformed gives exactly one synthetic step; any other
\* trace gives one step per entry, in the order of the trace, with
\* step_number 1..N.
C23_ActivityStepsNeverEmpty ==
    ( /\ ret.op = "perform_agentic_retrieval"
      /\ ~ret.retrieval.raised )
    => LET steps == ret.retrieval.result.activity_steps
           trace == ret.response.activity
           malformed == \E i \in 1..Len(trace) : trace[i].raises
       IN /\ steps # <<>>
          /\ (trace = <<>> \/ malformed)
                => /\ Len(steps) = 1
                   /\ steps[1].type = "AgenticRetrievalQuery"
                   /\ steps[1].step_number = 1
          /\ ~(trace = <<>> \/ malformed)
                => /\ Len(steps) = Len(trace)
                   /\ \A i \in 1..Len(steps) :
                         /\ steps[i].step_number = i
                         /\ steps[i].type = trace[i].type
                         /\ steps[i].input_tokens = trace[i].input_tokens

\* C23 witness: a trace whose second entry raises while it is read gave the
\* single step of the except branch, the step of the first entry discarded.
C23_Witness ==
    /\ ret.op = "perform_agentic_retrieval"
    /\ ret.response.activity = <<PlanningEntry, MalformedEntry>>
    /\ ret.retrieval.result.activity_steps = <<ErrorStep>>

\* C24: citation formatting yields exactly one citation per reference, in
\* the order of the references, with ids 1..N and a non-empty title each,
\* whether the reference carries inline source data, needs a lookup, exposes
\* only a key or no key at all, or raises while it is read; and a lookup is
\* attempted only for a reference without inline source data.
C24_OneCitationPerReference ==
    ret.op = "format_citations"
    => LET refs == ret.response.references
           citations == ret.citations
       IN /\ Len(citations) = Len(refs)
          /\ \A i \in 1..Len(citations) :
                /\ citations[i].id = ToString(i)
                /\ citations[i].title # <<>>
                /\ \A k \in 1..Len(citations[i].title) :
                      citations[i].title[k] # ""
                /\ citations[i].error = refs[i].raises
                /\ citations[i].lookup_attempted
                      => refs[i].source_data.kind = "none"
                /\ refs[i].source_data.title # <<>>
                      => citations[i].title = refs[i].source_data.title

\* C24 witness: two references were formatted, the first without source data
\* and with a key the index has no title for, the second raising while read.
C24_Witness ==
    /\ ret.op = "format_citations"
    /\ ret.search_client
    /\ Len(ret.response.references) = 2
    /\ ret.response.references[1]
          = Reference(FALSE, NoSourceData, FilingKey, "hit_untitled")
    /\ ret.response.references[2].raises
    /\ ret.citations[1].lookup_attempted
    /\ ret.citations[1].title
          = <<"SEC Filing ", "0001564590-19-027952", " - Section ", "chunk">>
    /\ ret.citations[2].title = <<"Document ", "2">>

\* C25 (as claimed): the message list sent to the planner holds at most 8
\* history turns, the most recent ones in their original order, each with
\* its content capped (no content sent is as long as the longest a turn can
\* have), followed by the current question as the final user message.
C25_PlannerMessages ==
    ( /\ ret.op = "build_conversation_messages"
      /\ imports_available )
    => LET messages == ret.messages
           n == Len(messages) - 1
           history == ret.history
       IN /\ Len(messages) >= 1
          /\ messages[Len(messages)] = [role |-> "user", question |-> query,
                                        turn |-> 0]
          /\ n <= 8
          /\ \A i \in 1..n :
                /\ messages[i].turn > Len(history) - 8
                /\ messages[i].role = history[messages[i].turn].role
                /\ i < n => messages[i].turn < messages[i + 1].turn
          /\ \E cap \in HistoryContents :
                /\ \E longer \in HistoryContents : cap < longer
                /\ \A i \in 1..n : messages[i].content <= cap

C27_FailedInitializeIsPermanent ==
    [][ ~agentic_enabled
        => /\ ~agentic_enabled'
           /\ knowledge_agent_client' = knowledge_agent_client
           /\ index_client' = index_client
           /\ ~IsInitialized([agentic_enabled |-> agentic_enabled',
                              knowledge_agent_client |->
                                  knowledge_agent_client',
                              index_client |-> index_client'])
           /\ ret'.op = "initialize" => ~ret'.raised /\ ~ret'.init_ok
           /\ ret'.op \in {"ensure_initialized", "agentic_process_question"}
                 => ret'.raised
           /\ ret'.op = "handle_rag_modes"
                 => /\ Len(ret'.events) = 1
                    /\ ret'.events[1].type = "error" ]_vars

\* C27 witness: the SDK is available, an initialize has failed and left the
\* service disabled, and a later ensure_initialized call raised.
C27_Witness ==
    /\ imports_available
    /\ ~agentic_enabled
    /\ ~knowledge_agent_client
    /\ ret.op = "ensure_initialized"
    /\ ret.raised
    /\ ret.exc = <<"Agentic service failed to initialize properly. ">>

\* C28: handle_rag_modes calls ensure_initialized before anything else for
\* every RAG mode, fast-rag and mcp-rag included; when it raises, the stream
\* is a single error event and nothing else is called: no session write, no
\* retrieval and no synthesis.
C28_InitializationFirst ==
    ret.op = "handle_rag_modes"
    => /\ ret.calls # <<>>
       /\ ret.calls[1] = "ensure_initialized"
       /\ ~ret.init_ok
             => /\ ret.calls = <<"ensure_initialized">>
                /\ Len(ret.events) = 1
                /\ ret.events[1].type = "error"
       /\ ret.init_ok => Len(ret.calls) > 1

\* C28 witness: a fast-rag request arrived while the agentic service could
\* not be initialized; the stream is the error event of ensure_initialized.
C28_Witness ==
    /\ ret.op = "handle_rag_modes"
    /\ ret.mode = "fast-rag"
    /\ ~ret.init_ok
    /\ ret.calls = <<"ensure_initialized">>
    /\ Len(ret.events) = 1
    /\ ret.events[1].type = "error"

\* C29: a RAG stream ends with exactly one terminal event, done or error,
\* and nothing follows it; answer_complete occurs at most once, after the
\* opening metadata event and before every citations, query_rewrites,
\* token_usage and processing event; and done never occurs without an
\* answer_complete before it, also when the result has success = false.
C29_StreamShape ==
    ret.op = "handle_rag_modes"
    => LET ev == ret.events
           n == Len(ev)
           Terminal == { i \in 1..n : ev[i].type \in {"done", "error"} }
           Answers == { i \in 1..n : ev[i].type = "answer_complete" }
       IN /\ Terminal = {n}
          /\ n >= 1
          /\ Cardinality(Answers) <= 1
          /\ \A a \in Answers :
                /\ \E m \in 1..(a - 1) :
                      ev[m].type = "metadata" /\ ev[1] = ev[m]
                /\ \A i \in 1..n :
                      ev[i].type \in {"citations", "query_rewrites",
                                      "token_usage", "processing"}
                        => a < i
          /\ \A i \in 1..n :
                ev[i].type \in {"citations", "query_rewrites",
                                "token_usage", "processing"}
                  => Answers # {}
          /\ ev[n].type = "done" => Answers # {}

\* C29 witness: a stream of a result with success = false: the opening
\* metadata, answer_complete, the processing event and done at the end.
C29_Witness ==
    /\ ret.op = "handle_rag_modes"
    /\ Len(ret.events) >= 4
    /\ ret.events[1].type = "metadata"
    /\ ret.events[2].type = "answer_complete"
    /\ ret.events[Len(ret.events)].type = "done"
    /\ \E i \in 1..Len(ret.events) :
          ret.events[i].type = "processing" /\ ~ret.events[i].success

\* C30: every call of process_question of the agentic and of the MCP service
\* records exactly one outcome in the token ledger, under its own tracking
\* id: a success record with the token counts of the result if and only if a
\* result with success = true is returned, and otherwise a failure record
\* with 0 prompt and 0 completion tokens.
C30_OneLedgerRecordPerCall ==
    LET Starts == { i \in 1..Len(ledger) : ledger[i].kind = "start" }
        Usages(id) == { i \in 1..Len(ledger) :
                          ledger[i].kind = "usage" /\ ledger[i].id = id }
    IN /\ \A i, j \in Starts : ledger[i].id = ledger[j].id => i = j
       /\ \A i \in Starts : Cardinality(Usages(ledger[i].id)) = 1
       /\ \A i \in 1..Len(ledger) :
             ledger[i].kind = "usage"
               => \E s \in Starts : s < i /\ ledger[s].id = ledger[i].id
       /\ ret.op \in {"tracked_agentic_process_question",
                      "tracked_mcp_process_question"}
             => \A u \in Usages(ret.tracking_id) :
                   LET returned == ~ret.raised /\ ret.result.success
                   IN /\ ledger[u].success = returned
                      /\ returned
                            => /\ ledger[u].prompt_tokens
                                    = ret.result.token_usage.prompt_tokens
                               /\ ledger[u].completion_tokens
                                    = ret.result.token_usage.completion_tokens
                      /\ ~returned
                            => /\ ledger[u].prompt_tokens = 0
                               /\ ledger[u].completion_tokens = 0

\* C30 witness: two calls were tracked; the first, of the agentic service,
\* raised and left a failure record under id 1, the second, of the MCP
\* service, returned a result and left a success record with its token
\* counts under id 2.
C30_Witness ==
    /\ Len(ledger) = 4
    /\ ledger[1] = [kind |-> "start", id |-> 1, service |-> "agentic_rag"]
    /\ ledger[2] = [kind |-> "usage", id |-> 1, prompt_tokens |-> 0,
                    completion_tokens |-> 0, success |-> FALSE]
    /\ ledger[3] = [kind |-> "start", id |-> 2, service |-> "mcp_rag"]
    /\ ledger[4].kind = "usage"
    /\ ledger[4].id = 2
    /\ ledger[4].success
    /\ ledger[4].prompt_tokens > 0
    /\ ret.op = "tracked_mcp_process_question"
    /\ ret.tracking_id = 2
    /\ ret.result.success

====
